---- MODULE Spec2Model ----
(***************************************************************************)
(* Navigation and view-state engine of rmpc: the DirStack drill-down       *)
(* stack with its MyState scroll state (src/src/ui/screens/mod.rs), the    *)
(* queue pane (src/src/ui/panes/queue.rs) and the Ui input router          *)
(* (src/src/ui/mod.rs).                                                    *)
(*                                                                         *)
(* Option<T> is modelled as a sequence: None is <<>>, Some(x) is <<x>>.    *)
(* A String is a sequence of one-character strings.                        *)
(***************************************************************************)
EXTENDS Integers, Sequences, FiniteSets, TLC

VARIABLES
    stack,          \* DirStack of a browsing pane
    snap,           \* history: the stack as each push found it
    dlast,          \* history: the last DirStack call
    command,        \* Ui.command
    modals,         \* Ui.modals
    active_tab,     \* Ui.active_tab
    queue_pane,     \* the QueuePane held in Ui.panes
    pending,        \* UiAppEvents sent and not yet delivered to the Ui
    ev,             \* history: what the last event given to the Ui did
    mystate,        \* a MyState on its own
    mlast,          \* history: the last call on mystate
    qlast,          \* history: the last call on the queue pane on its own
    jlast,          \* history: the last jump_forward / jump_back on the stack
    current_song,   \* Ui.current_song
    elast,          \* history: the last Ui::on_event call
    areas,          \* Ui.areas
    table,          \* QueuePane.table_area and the offset of its TableState
    mouse,          \* history: the last mouse event and what it found
    screen,         \* DirectoriesScreen.path and .filter_input_mode
    slast,          \* history: the last call on the DirectoriesScreen
    status_message, \* Ui.status_message
    now,            \* the clock read by Instant::now() and elapsed(), in seconds
    rlast,          \* history: the last call that read or wrote status_message
    cycle,          \* a list of tab names, a tab, a build and a screen of it
    clast,          \* history: the last next / prev applied to `cycle`
    status_state,   \* context.status.state
    tlast           \* history: the last key given with that state

dirVars == <<stack, snap, dlast, jlast>>

uiVars == <<command, modals, active_tab, queue_pane, pending, ev>>

scrollVars == <<mystate, mlast>>

eventVars == <<current_song, elast>>

\* The variables of the parts of the Ui that are modelled on their own.
mouseVars == <<areas, table, mouse>>

screenVars == <<screen, slast>>

statusVars == <<status_message, now, rlast>>

cycleVars == <<cycle, clast>>

transportVars == <<status_state, tlast>>

auxVars ==
    <<eventVars, mouseVars, screenVars, statusVars, cycleVars, transportVars>>

vars ==
    <<stack, snap, dlast, command, modals, active_tab, queue_pane, pending, ev,
      mystate, mlast, qlast, jlast, current_song, elast, areas, table, mouse,
      screen, slast, status_message, now, rlast, cycle, clast, status_state,
      tlast>>

\* ------------------------------------------------------------------ bounds
\* Longest ancestor list (`others`, sentinel included) a push may produce.
MaxDepth == 3

\* Longest text typed into the command line or into a filter.
MaxStrLen == 1

\* Most modals open at once, counting those whose opening is in flight.
MaxModals == 2

\* Most UiAppEvents in flight.
MaxPending == 2

\* Largest content length and viewport length given to a scroll state.
MaxLen == 3

\* Most components of the path of the directories screen.
MaxPath == 2

\* Last second of the clock.
MaxTime == 14

\* Most applications of next in a row.
MaxRun == 6

\* ------------------------------------------------------------------ Option
None == <<>>

Some(x) == <<x>>

IsSome(o) == o # <<>>

Unwrap(o) == o[1]

Front(s) == SubSeq(s, 1, Len(s) - 1)

SatSub(a, b) == IF a >= b THEN a - b ELSE 0

Min(a, b) == IF a <= b THEN a ELSE b

Max(a, b) == IF a >= b THEN a ELSE b

\* ---------------------------------------------------------------- MyState
\* MyState::default(): nothing selected, lengths unknown.
MyStateDefault == [sel |-> None, content_len |-> None, viewport_len |-> None]

\* MyState::select
MyStateSelect(st, idx) == [st EXCEPT !.sel = idx]

\* MyState::get_selected
GetSelected(st) == st.sel

\* MyState::content_len
SetContentLen(st, n) == [st EXCEPT !.content_len = n]

\* MyState::viewport_len
SetViewportLen(st, n) == [st EXCEPT !.viewport_len = n]

\* MyState::first
MyStateFirst(st) ==
    IF IsSome(st.content_len) THEN MyStateSelect(st, Some(0))
    ELSE MyStateSelect(st, None)

\* MyState::last
MyStateLast(st) ==
    IF IsSome(st.content_len)
    THEN MyStateSelect(st, Some(SatSub(Unwrap(st.content_len), 1)))
    ELSE MyStateSelect(st, None)

\* Mutant of next: the wrap is decided one row early (>= item_count - 2).
MyStateNext_WrapsEarly(st) ==
    IF IsSome(st.content_len)
    THEN LET item_count == Unwrap(st.content_len)
             i == IF IsSome(GetSelected(st))
                  THEN IF Unwrap(GetSelected(st)) >= SatSub(item_count, 2)
                       THEN 0
                       ELSE Unwrap(GetSelected(st)) + 1
                  ELSE 0
         IN MyStateSelect(st, Some(i))
    ELSE MyStateSelect(st, None)

\* MyState::next
MyStateNext(st) ==
    IF IsSome(st.content_len)
    THEN LET item_count == Unwrap(st.content_len)
             i == IF IsSome(GetSelected(st))
                  THEN IF Unwrap(GetSelected(st)) >= SatSub(item_count, 1)
                       THEN 0
                       ELSE Unwrap(GetSelected(st)) + 1
                  ELSE 0
         IN MyStateSelect(st, Some(i))
    ELSE MyStateSelect(st, None)

\* MyState::prev
MyStatePrev(st) ==
    IF IsSome(st.content_len)
    THEN LET item_count == Unwrap(st.content_len)
             i == IF IsSome(GetSelected(st))
                  THEN IF Unwrap(GetSelected(st)) = 0
                       THEN SatSub(item_count, 1)
                       ELSE Unwrap(GetSelected(st)) - 1
                  ELSE 0
         IN MyStateSelect(st, Some(i))
    ELSE MyStateSelect(st, None)

\* Mutant of next_half_viewport: the step is not held at the last row.
MyStateNextHalfViewport_NoClamp(st) ==
    IF IsSome(st.content_len)
    THEN IF IsSome(st.viewport_len)
         THEN LET viewport == Unwrap(st.viewport_len)
                  i == IF IsSome(GetSelected(st))
                       THEN Unwrap(GetSelected(st)) + (viewport \div 2)
                       ELSE 0
              IN MyStateSelect(st, Some(i))
         ELSE MyStateSelect(st, None)
    ELSE MyStateSelect(st, None)

\* MyState::next_half_viewport
MyStateNextHalfViewport(st) ==
    IF IsSome(st.content_len)
    THEN IF IsSome(st.viewport_len)
         THEN LET item_count == Unwrap(st.content_len)
                  viewport == Unwrap(st.viewport_len)
                  i == IF IsSome(GetSelected(st))
                       THEN Min(Unwrap(GetSelected(st)) + (viewport \div 2),
                                SatSub(item_count, 1))
                       ELSE 0
              IN MyStateSelect(st, Some(i))
         ELSE MyStateSelect(st, None)
    ELSE MyStateSelect(st, None)

\* MyState::prev_half_viewport
MyStatePrevHalfViewport(st) ==
    IF IsSome(st.content_len)
    THEN IF IsSome(st.viewport_len)
         THEN LET viewport == Unwrap(st.viewport_len)
                  i == IF IsSome(GetSelected(st))
                       THEN Max(SatSub(Unwrap(GetSelected(st)), viewport \div 2), 0)
                       ELSE 0
              IN MyStateSelect(st, Some(i))
         ELSE MyStateSelect(st, None)
    ELSE MyStateSelect(st, None)

\* The record of a call on a MyState: the operation, the state it found and,
\* for next and prev, how many calls of it came in a row (counted up to
\* MaxLen + 1) and the state the first of them found.
MLast(op, pre, streak, start) ==
    [op |-> op, pre |-> pre, streak |-> streak, start |-> start]

\* MyState::default(), not yet used.
ScrollIdle ==
    /\ mystate = MyStateDefault
    /\ mlast = MLast("default", MyStateDefault, 0, MyStateDefault)

\* ------------------------------------------------------------- strings
\* char::to_lowercase on the alphabet of the model.
LowerChar(c) == IF c = "A" THEN "a" ELSE IF c = "B" THEN "b" ELSE c

\* str::to_lowercase
ToLower(s) == [i \in 1..Len(s) |-> LowerChar(s[i])]

\* str::contains
Contains(s, f) ==
    \E i \in 0..(Len(s) - Len(f)) : SubSeq(s, i + 1, i + Len(f)) = f

\* MatchesSearch for DirOrSongInfo: the directory name or the song title.
Matches(item, filter, ignorecase) ==
    IF ignorecase THEN Contains(ToLower(item.name), ToLower(filter))
    ELSE Contains(item.name, filter)

\* ---------------------------------------------------------------- DirStack
Dir(n) == [kind |-> "Dir", name |-> n]

Song(n) == [kind |-> "Song", name |-> n]

\* The directory listings the browsing pane may be handed.
Listings ==
    { <<>>,
      <<Dir(<<"A">>)>>,
      <<Song(<<"b">>), Dir(<<"a", "b">>), Song(<<"B">>)>> }

\* The text filters the owner of the stack may set.
Filters == { <<>>, <<"a">> }

\* Heights of the area the list is rendered into.
Viewports == {2}

\* A frame of the stack: (Vec<T>, MyState<ListState>).
Frame(items, state) == [items |-> items, state |-> state]

\* Mutant of push: the first row is selected even in an empty listing.
DirStackPush_AlwaysSelects(s, head) ==
    [s EXCEPT !.current = Frame(head, MyStateSelect(MyStateDefault, Some(0))),
              !.others = Append(s.others, s.current),
              !.filter = None]

\* DirStack::push
DirStackPush(s, head) ==
    LET new_state == IF head # <<>> THEN MyStateSelect(MyStateDefault, Some(0))
                     ELSE MyStateDefault
    IN [s EXCEPT !.current = Frame(head, new_state),
                 !.others = Append(s.others, s.current),
                 !.filter = None]

\* DirStack::new
DirStackNew(root) ==
    LET result == [others |-> <<>>,
                   current |-> Frame(<<>>, MyStateDefault),
                   filter |-> None,
                   filter_ignore_case |-> TRUE]
        pushed == DirStackPush(result, <<>>)
        root_state == IF root # <<>> THEN MyStateSelect(MyStateDefault, Some(0))
                      ELSE MyStateDefault
    IN [pushed EXCEPT !.current = Frame(root, root_state)]

\* Mutant of pop: the sentinel is not protected (len > 0 instead of len > 1).
DirStackPop_PopsSentinel(s) ==
    IF Len(s.others) > 0
    THEN [stack |-> [s EXCEPT !.filter = None,
                              !.others = Front(s.others),
                              !.current = s.others[Len(s.others)]],
          ret |-> Some(s.current)]
    ELSE [stack |-> s, ret |-> None]

\* Mutant of pop: the restored frame comes back with a fresh scroll state.
DirStackPop_ResetsSelection(s) ==
    IF Len(s.others) > 1
    THEN [stack |-> [s EXCEPT !.filter = None,
                              !.others = Front(s.others),
                              !.current = Frame(s.others[Len(s.others)].items,
                                                MyStateDefault)],
          ret |-> Some(s.current)]
    ELSE [stack |-> s, ret |-> None]

\* Mutant of pop: the filter is cleared before the depth is looked at.
DirStackPop_AlwaysClearsFilter(s) ==
    IF Len(s.others) > 1
    THEN [stack |-> [s EXCEPT !.filter = None,
                              !.others = Front(s.others),
                              !.current = s.others[Len(s.others)]],
          ret |-> Some(s.current)]
    ELSE [stack |-> [s EXCEPT !.filter = None], ret |-> None]

\* DirStack::pop: the stack afterwards and the value returned.
DirStackPop(s) ==
    IF Len(s.others) > 1
    THEN [stack |-> [s EXCEPT !.filter = None,
                              !.others = Front(s.others),
                              !.current = s.others[Len(s.others)]],
          ret |-> Some(s.current)]
    ELSE [stack |-> s, ret |-> None]

\* DirStack::previous: None stands for the panic of expect() on an empty list.
DirStackPrevious(s) ==
    IF Len(s.others) > 0 THEN Some(s.others[Len(s.others)]) ELSE None

\* DirStack::get_selected
DirStackGetSelected(s) ==
    IF IsSome(GetSelected(s.current.state))
       /\ Unwrap(GetSelected(s.current.state)) < Len(s.current.items)
    THEN Some(s.current.items[Unwrap(GetSelected(s.current.state)) + 1])
    ELSE None

\* Applies a MyState operation to the frame on top of the stack.
OnCurrent(s, st) == [s EXCEPT !.current.state = st]

\* DirStack::next
DirStackNext(s) == OnCurrent(s, MyStateNext(s.current.state))

\* DirStack::prev
DirStackPrev(s) == OnCurrent(s, MyStatePrev(s.current.state))

\* DirStack::next_half_viewport
DirStackNextHalfViewport(s) == OnCurrent(s, MyStateNextHalfViewport(s.current.state))

\* DirStack::prev_half_viewport
DirStackPrevHalfViewport(s) == OnCurrent(s, MyStatePrevHalfViewport(s.current.state))

\* DirStack::last
DirStackLast(s) == OnCurrent(s, MyStateLast(s.current.state))

\* DirStack::first
DirStackFirst(s) == OnCurrent(s, MyStateFirst(s.current.state))

\* The indices a scan visits, in order, that match the filter.
RECURSIVE FirstMatch(_, _, _, _)
FirstMatch(items, order, filter, ignorecase) ==
    IF order = <<>> THEN None
    ELSE IF Matches(items[Head(order) + 1], filter, ignorecase) THEN Some(Head(order))
    ELSE FirstMatch(items, Tail(order), filter, ignorecase)

\* DirStack::jump_forward: scans selected+1 .. len-1, no wrap.
DirStackJumpForward(s) ==
    IF IsSome(s.filter) /\ IsSome(GetSelected(s.current.state))
    THEN LET selected == Unwrap(GetSelected(s.current.state))
             n == Len(s.current.items)
             order == [k \in 1..SatSub(n, selected + 1) |-> selected + k]
             hit == FirstMatch(s.current.items, order, Unwrap(s.filter),
                               s.filter_ignore_case)
         IN IF IsSome(hit) THEN OnCurrent(s, MyStateSelect(s.current.state, hit))
            ELSE s
    ELSE s

\* DirStack::jump_back: scans selected-1 .. 0, no wrap.
DirStackJumpBack(s) ==
    IF IsSome(s.filter) /\ IsSome(GetSelected(s.current.state))
    THEN LET selected == Unwrap(GetSelected(s.current.state))
             order == [k \in 1..selected |-> selected - k]
             hit == FirstMatch(s.current.items, order, Unwrap(s.filter),
                               s.filter_ignore_case)
         IN IF IsSome(hit) THEN OnCurrent(s, MyStateSelect(s.current.state, hit))
            ELSE s
    ELSE s

\* ------------------------------------------------------------ key events
\* The keys of the model: one character key and a number of named keys.
Keys ==
    {"q", "Esc", "Enter", "Backspace", "Home", "F1", "F2", "F4", "F5", "F8", "F9",
     "F10", "Tab", "BackTab"}

\* KeyEvent::code: Some(c) for KeyCode::Char(c), None for every other code.
CharOf(k) == IF k = "q" THEN Some(k) ELSE None

\* config.keybinds.navigation: key -> CommonAction ("None" when unbound).
CommonOf(k) ==
    CASE k = "Esc" -> "Close"
      [] k = "Enter" -> "Confirm"
      [] k = "Home" -> "Top"
      [] k = "F2" -> "EnterSearch"
      [] OTHER -> "None"

\* config.keybinds.queue: key -> QueueActions ("None" when unbound).
QueueOf(k) ==
    CASE k = "Enter" -> "Play"
      [] k = "F5" -> "DeleteAll"
      [] OTHER -> "None"

\* config.keybinds.global: key -> GlobalAction ("None" when unbound).
GlobalOf(k) ==
    CASE k = "q" -> "Quit"
      [] k = "F4" -> "CommandMode"
      [] k = "Tab" -> "NextTab"
      [] k = "BackTab" -> "PreviousTab"
      [] k = "F8" -> "SwitchToTab:Nowhere"
      [] k = "F9" -> "ShowHelp"
      [] k = "F10" -> "ExternalCommand"
      [] k = "Home" -> "VolumeUp"
      [] k = "PageDown" -> "NextTrack"
      [] k = "PageUp" -> "PreviousTrack"
      [] k = "End" -> "Stop"
      [] k = "Insert" -> "TogglePause"
      [] k = "Right" -> "SeekForward"
      [] k = "Left" -> "SeekBack"
      [] OTHER -> "None"

\* KeyEvent: the key and the already-handled mark.
KeyEvent(k) == [key |-> k, handled |-> FALSE]

\* KeyEvent::stop_propagation
StopPropagation(ke) == [ke EXCEPT !.handled = TRUE]

\* KeyEvent::abandon
Abandon(ke) == [ke EXCEPT !.handled = FALSE]

\* KeyEvent::as_*_action: no action for an event already handled; a bound
\* action marks the event handled.
AsAction(ke, bound) ==
    IF ke.handled \/ bound = "None" THEN [act |-> "None", ke |-> ke]
    ELSE [act |-> bound, ke |-> StopPropagation(ke)]

\* KeyEvent::as_common_action
AsCommonAction(ke) == AsAction(ke, CommonOf(ke.key))

\* KeyEvent::as_queue_action
AsQueueAction(ke) == AsAction(ke, QueueOf(ke.key))

\* KeyEvent::as_global_action
AsGlobalAction(ke) == AsAction(ke, GlobalOf(ke.key))

\* ----------------------------------------------- queue pane: scroll state
\* DirState<TableState> of the queue pane: selection and known lengths.
DirStateDefault == [sel |-> None, content_len |-> None, viewport_len |-> None]

\* Whether the content length is known and positive.
HasContent(st) == IsSome(st.content_len) /\ Unwrap(st.content_len) > 0

\* DirState::set_content_len: the selection is not moved.
DsSetContentLen(st, n) == [st EXCEPT !.content_len = n]

\* DirState::set_viewport_len: the selection is not moved.
DsSetViewportLen(st, n) == [st EXCEPT !.viewport_len = n]

\* DirState::select: clamps to the valid range.
DsSelect(st, idx) ==
    IF IsSome(idx) /\ HasContent(st)
    THEN [st EXCEPT !.sel = Some(Min(Unwrap(idx), Unwrap(st.content_len) - 1))]
    ELSE [st EXCEPT !.sel = None]

\* DirState::next(scrolloff, wrap)
DsNext(st, wrap) ==
    IF ~HasContent(st) THEN [st EXCEPT !.sel = None]
    ELSE IF st.sel = None THEN DsSelect(st, Some(0))
    ELSE IF Unwrap(st.sel) >= Unwrap(st.content_len) - 1
         THEN (IF wrap THEN DsSelect(st, Some(0))
               ELSE DsSelect(st, Some(Unwrap(st.content_len) - 1)))
    ELSE DsSelect(st, Some(Unwrap(st.sel) + 1))

\* DirState::prev(scrolloff, wrap)
DsPrev(st, wrap) ==
    IF ~HasContent(st) THEN [st EXCEPT !.sel = None]
    ELSE IF st.sel = None THEN DsSelect(st, Some(Unwrap(st.content_len) - 1))
    ELSE IF Unwrap(st.sel) = 0
         THEN (IF wrap THEN DsSelect(st, Some(Unwrap(st.content_len) - 1))
               ELSE DsSelect(st, Some(0)))
    ELSE DsSelect(st, Some(Unwrap(st.sel) - 1))

\* DirState::next_half_viewport
DsNextHalfViewport(st) ==
    IF ~HasContent(st) THEN [st EXCEPT !.sel = None]
    ELSE IF st.viewport_len = None THEN st
    ELSE IF st.sel = None THEN DsSelect(st, Some(0))
    ELSE DsSelect(st, Some(Unwrap(st.sel) + (Unwrap(st.viewport_len) \div 2)))

\* DirState::prev_half_viewport
DsPrevHalfViewport(st) ==
    IF ~HasContent(st) THEN [st EXCEPT !.sel = None]
    ELSE IF st.viewport_len = None THEN st
    ELSE IF st.sel = None THEN DsSelect(st, Some(0))
    ELSE DsSelect(st, Some(SatSub(Unwrap(st.sel), Unwrap(st.viewport_len) \div 2)))

\* DirState::first
DsFirst(st) == DsSelect(st, Some(0))

\* DirState::last
DsLast(st) ==
    IF HasContent(st) THEN DsSelect(st, Some(Unwrap(st.content_len) - 1))
    ELSE [st EXCEPT !.sel = None]

\* ------------------------------------------------------------- AppContext
\* A song of the queue: its id and the text shown in the table.
QSong(id, title) == [id |-> id, title |-> title]

\* The snapshots of the player the host may hand to a call: the queue, the
\* play state and the id of the current song.
Contexts ==
    { [queue |-> <<QSong(1, <<"a">>), QSong(2, <<"q">>)>>,
       state |-> "Play", songid |-> Some(2)] }

\* Song::matches: the filter is contained in the displayed text.
SongMatches(song, filter) == Contains(ToLower(song.title), ToLower(filter))

\* AppContext::find_current_song_in_queue: the index of status.songid.
FindCurrentSongInQueue(ctx) ==
    LET hits == {i \in 1..Len(ctx.queue) : Some(ctx.queue[i].id) = ctx.songid}
    IN IF hits = {} THEN None
       ELSE Some((CHOOSE i \in hits : \A j \in hits : i <= j) - 1)

\* ------------------------------------------------------------- queue pane
\* QueuePane::new
QueuePaneNew ==
    [scrolling_state |-> DirStateDefault, filter |-> None, filter_input_mode |-> FALSE]

\* What a pane handler did: the pane afterwards, the key event afterwards,
\* Ok or Err, the app events sent (modal! macro), the player commands issued,
\* whether context.render() was called, the status messages raised and
\* whether an arm of the handler ran for the key.
PaneOut(qp, ke) ==
    [qp |-> qp, ke |-> ke, res |-> "Ok", sent |-> <<>>, cmds |-> <<>>,
     render |-> FALSE, status |-> <<>>, acted |-> FALSE]

\* The outcomes of an arm of a handler that ran for the key.
Acted(outs) == {[p EXCEPT !.acted = TRUE] : p \in outs}

\* What a call on the queue pane gave back to its caller: the result, whether
\* a render was requested, the player commands and the app events sent.
OutOf(o) == [res |-> o.res, render |-> o.render, cmds |-> o.cmds, sent |-> o.sent]

\* A call that returned Ok and asked for nothing.
NoOut == [res |-> "Ok", render |-> FALSE, cmds |-> <<>>, sent |-> <<>>]

\* The record of a call on the queue pane: the operation, the queue and the
\* current song id of the context it was given, the pane it found, the status messages it raised,
\* for the scroll wheel how many scrolls of the same direction came in a row
\* (counted up to MaxLen + 1), and what the call gave back.
QLast(op, ctx, pre, status, streak, out) ==
    [op |-> op, queue |-> ctx.queue, songid |-> ctx.songid, pre |-> pre,
     status |-> status, streak |-> streak, out |-> out]

\* QueuePane::new, not yet used.
QueueIdle ==
    qlast = QLast("new", [queue |-> <<>>, state |-> "Stop", songid |-> None],
                  QueuePaneNew, <<>>, 0, NoOut)

\* context.render()
WithRender(o) == [o EXCEPT !.render = TRUE]

\* status_error! / status_warn! / status_info!
WithStatus(o, level) == [o EXCEPT !.status = Append(@, level)]

\* modal!(context, modal)
WithModal(o, kind) == [o EXCEPT !.sent = Append(@, [type |-> "Modal", kind |-> kind])]

\* A player command that succeeded.
WithCmd(o, c) == [o EXCEPT !.cmds = Append(@, c)]

\* A player command that failed and was propagated with `?`.
Failed(o) == [o EXCEPT !.res = "Err"]

\* scrolling_state.get_selected().and_then(|idx| context.queue.get(idx))
SelectedSong(qp, ctx) ==
    IF IsSome(qp.scrolling_state.sel) /\ Unwrap(qp.scrolling_state.sel) < Len(ctx.queue)
    THEN Some(ctx.queue[Unwrap(qp.scrolling_state.sel) + 1])
    ELSE None

\* The first index of `order` whose song matches the filter.
RECURSIVE FirstSongMatch(_, _, _)
FirstSongMatch(queue, order, filter) ==
    IF order = <<>> THEN None
    ELSE IF SongMatches(queue[Head(order) + 1], filter) THEN Some(Head(order))
    ELSE FirstSongMatch(queue, Tail(order), filter)

\* QueuePane::jump_forward
QueueJumpForward(o, queue) ==
    IF o.qp.filter = None THEN WithStatus(o, "Warn")
    ELSE IF o.qp.scrolling_state.sel = None THEN o
    ELSE LET selected == Unwrap(o.qp.scrolling_state.sel)
             length == Len(queue)
             order == [k \in 1..SatSub(length, 1) |-> (selected + k) % length]
             hit == FirstSongMatch(queue, order, Unwrap(o.qp.filter))
         IN IF IsSome(hit)
            THEN [o EXCEPT !.qp.scrolling_state = DsSelect(@, hit)]
            ELSE o

\* QueuePane::jump_back
QueueJumpBack(o, queue) ==
    IF o.qp.filter = None THEN WithStatus(o, "Warn")
    ELSE IF o.qp.scrolling_state.sel = None THEN o
    ELSE LET selected == Unwrap(o.qp.scrolling_state.sel)
             length == Len(queue)
             order == [k \in 1..length |-> ((length - k) + selected) % length]
             hit == FirstSongMatch(queue, order, Unwrap(o.qp.filter))
         IN IF IsSome(hit)
            THEN [o EXCEPT !.qp.scrolling_state = DsSelect(@, hit)]
            ELSE o

\* QueuePane::jump_first
QueueJumpFirst(o, queue) ==
    IF o.qp.filter = None THEN WithStatus(o, "Warn")
    ELSE LET order == [k \in 1..Len(queue) |-> k - 1]
             hit == FirstSongMatch(queue, order, Unwrap(o.qp.filter))
         IN IF IsSome(hit)
            THEN [o EXCEPT !.qp.scrolling_state = DsSelect(@, hit)]
            ELSE o

\* String::push on an Option<String> that is Some.
PushChar(f, c) == IF IsSome(f) THEN Some(Append(Unwrap(f), c)) ELSE f

\* String::pop on an Option<String> that is Some.
PopChar(f) ==
    IF IsSome(f) /\ Unwrap(f) # <<>> THEN Some(Front(Unwrap(f))) ELSE f

\* Mutant of the filter input: a key that is neither Confirm nor Close is
\* handled without stopping its propagation.
QueueFilterInput_LetsKeysThrough(qp, ke, ctx) ==
    LET a == AsCommonAction(ke)
    IN IF a.act = "Confirm"
       THEN {WithRender(PaneOut([qp EXCEPT !.filter_input_mode = FALSE], a.ke))}
       ELSE IF a.act = "Close"
       THEN {WithRender(PaneOut([qp EXCEPT !.filter_input_mode = FALSE,
                                           !.filter = None], a.ke))}
       ELSE IF IsSome(CharOf(ke.key))
       THEN {WithRender(QueueJumpFirst(
                PaneOut([qp EXCEPT !.filter = PushChar(@, Unwrap(CharOf(ke.key)))],
                        a.ke),
                ctx.queue))}
       ELSE IF ke.key = "Backspace"
       THEN {WithRender(PaneOut([qp EXCEPT !.filter = PopChar(@)], a.ke))}
       ELSE {PaneOut(qp, a.ke)}

\* QueuePane::handle_action, filter input mode (the first branch).
QueueFilterInput(qp, ke, ctx) ==
    LET a == AsCommonAction(ke)
    IN IF a.act = "Confirm"
       THEN {WithRender(PaneOut([qp EXCEPT !.filter_input_mode = FALSE], a.ke))}
       ELSE IF a.act = "Close"
       THEN {WithRender(PaneOut([qp EXCEPT !.filter_input_mode = FALSE,
                                           !.filter = None], a.ke))}
       ELSE LET stopped == StopPropagation(a.ke)
            IN IF IsSome(CharOf(ke.key))
               THEN {WithRender(QueueJumpFirst(
                        PaneOut([qp EXCEPT !.filter = PushChar(@, Unwrap(CharOf(ke.key)))],
                                stopped),
                        ctx.queue))}
               ELSE IF ke.key = "Backspace"
               THEN {WithRender(PaneOut([qp EXCEPT !.filter = PopChar(@)], stopped))}
               ELSE {PaneOut(qp, stopped)}

\* QueuePane::handle_action, the arm of a bound QueueActions.
QueueQueueAction(qp, ke, ctx, action) ==
    LET o == PaneOut(qp, ke)
        song == SelectedSong(qp, ctx)
    IN CASE action = "Delete" ->
              IF IsSome(song)
              THEN {WithCmd(o, <<"delete_id", Unwrap(song).id>>), o}
              ELSE {WithStatus(o, "Error")}
         [] action = "DeleteAll" -> {WithModal(o, "ConfirmQueueClear")}
         [] action = "Play" ->
              IF IsSome(song)
              THEN {WithCmd(o, <<"play_id", Unwrap(song).id>>), Failed(o)}
              ELSE {o}
         [] action = "JumpToCurrent" ->
              IF IsSome(FindCurrentSongInQueue(ctx))
              THEN {WithRender([o EXCEPT !.qp.scrolling_state =
                                    DsSelect(@, FindCurrentSongInQueue(ctx))])}
              ELSE {WithStatus(o, "Info")}
         [] action = "Save" -> {WithModal(o, "SaveQueue")}
         [] action = "AddToPlaylist" ->
              IF IsSome(song)
              THEN {WithModal(WithCmd(o, <<"list_playlists">>), "AddToPlaylist"), Failed(o)}
              ELSE {o}
         [] action = "ShowInfo" ->
              IF IsSome(song) THEN {WithModal(o, "SongInfo")}
              ELSE {WithStatus(o, "Error")}

\* config.wrap_navigation
WrapNavigation == TRUE

\* MoveUp: `idx.saturating_sub(1)`
MoveUpTarget(idx) == SatSub(idx, 1)

\* Mutant of MoveDown: the target is not held below the queue length.
MoveDownTarget_NoMin(idx, len) == idx + 1

\* MoveDown: `(idx + 1).min(context.queue.len() - 1)`
MoveDownTarget(idx, len) == Min(idx + 1, len - 1)

\* QueuePane::handle_action, the arm of a bound CommonAction.
QueueCommonAction(qp, ke, ctx, action) ==
    LET o == PaneOut(qp, ke)
        st == qp.scrolling_state
        nonempty == ctx.queue # <<>>
        moved(new) == WithRender([o EXCEPT !.qp.scrolling_state =
                                      IF nonempty THEN new ELSE st])
        song == SelectedSong(qp, ctx)
    IN CASE action = "Up" -> {moved(DsPrev(st, WrapNavigation))}
         [] action = "Down" -> {moved(DsNext(st, WrapNavigation))}
         [] action = "MoveUp" ->
              IF ~nonempty \/ st.sel = None \/ song = None THEN {o}
              ELSE LET new_idx == MoveUpTarget(Unwrap(st.sel))
                   IN {[WithCmd(o, <<"move_id", Unwrap(song).id, new_idx>>)
                           EXCEPT !.qp.scrolling_state = DsSelect(st, Some(new_idx))],
                       Failed(o)}
         [] action = "MoveDown" ->
              IF ~nonempty \/ st.sel = None \/ song = None THEN {o}
              ELSE LET new_idx == MoveDownTarget(Unwrap(st.sel), Len(ctx.queue))
                   IN {[WithCmd(o, <<"move_id", Unwrap(song).id, new_idx>>)
                           EXCEPT !.qp.scrolling_state = DsSelect(st, Some(new_idx))],
                       Failed(o)}
         [] action = "DownHalf" -> {moved(DsNextHalfViewport(st))}
         [] action = "UpHalf" -> {moved(DsPrevHalfViewport(st))}
         [] action = "Bottom" -> {moved(DsLast(st))}
         [] action = "Top" -> {moved(DsFirst(st))}
         [] action = "EnterSearch" ->
              {WithRender([o EXCEPT !.qp.filter_input_mode = TRUE,
                                    !.qp.filter = Some(<<>>)])}
         [] action = "NextResult" -> {WithRender(QueueJumpForward(o, ctx.queue))}
         [] action = "PreviousResult" -> {WithRender(QueueJumpBack(o, ctx.queue))}
         [] OTHER -> {o}

\* QueuePane::handle_action, the arm of a bound GlobalAction.
QueueGlobalAction(qp, ke, ctx, action) ==
    IF action = "ExternalCommand"
    THEN Acted({WithCmd(PaneOut(qp, ke), <<"run_external">>), Failed(PaneOut(qp, ke))})
    ELSE {PaneOut(qp, Abandon(ke))}

\* Mutant of the queue pane: a key bound to a global action is not abandoned.
QueueHandleAction_KeepsGlobalKeys(qp, ke, ctx) ==
    IF qp.filter_input_mode THEN Acted(QueueFilterInput(qp, ke, ctx))
    ELSE LET qa == AsQueueAction(ke)
             ca == AsCommonAction(qa.ke)
             ga == AsGlobalAction(ca.ke)
         IN IF qa.act # "None" THEN Acted(QueueQueueAction(qp, qa.ke, ctx, qa.act))
            ELSE IF ca.act # "None"
            THEN Acted(QueueCommonAction(qp, ca.ke, ctx, ca.act))
            ELSE {PaneOut(qp, ga.ke)}

\* QueuePane::handle_action
QueueHandleAction(qp, ke, ctx) ==
    IF qp.filter_input_mode THEN Acted(QueueFilterInput(qp, ke, ctx))
    ELSE LET qa == AsQueueAction(ke)
             ca == AsCommonAction(qa.ke)
             ga == AsGlobalAction(ca.ke)
         IN IF qa.act # "None" THEN Acted(QueueQueueAction(qp, qa.ke, ctx, qa.act))
            ELSE IF ca.act # "None"
            THEN Acted(QueueCommonAction(qp, ca.ke, ctx, ca.act))
            ELSE IF ga.act # "None" THEN QueueGlobalAction(qp, ga.ke, ctx, ga.act)
            ELSE {PaneOut(qp, ga.ke)}

\* Mutant of the scroll wheel: it wraps as the keys do (wrap_navigation).
QueueHandleMouseScroll_Wraps(qp, kind) ==
    IF kind = "ScrollDown"
    THEN WithRender(PaneOut([qp EXCEPT !.scrolling_state = DsNext(@, WrapNavigation)],
                            KeyEvent("-")))
    ELSE WithRender(PaneOut([qp EXCEPT !.scrolling_state = DsPrev(@, WrapNavigation)],
                            KeyEvent("-")))

\* QueuePane::handle_mouse_event, ScrollDown / ScrollUp inside the table.
QueueHandleMouseScroll(qp, kind) ==
    IF kind = "ScrollDown"
    THEN WithRender(PaneOut([qp EXCEPT !.scrolling_state = DsNext(@, FALSE)],
                            KeyEvent("-")))
    ELSE WithRender(PaneOut([qp EXCEPT !.scrolling_state = DsPrev(@, FALSE)],
                            KeyEvent("-")))

\* QueuePane::before_show
QueueBeforeShow(qp, ctx) ==
    LET st == DsSetContentLen(qp.scrolling_state, Some(Len(ctx.queue)))
    IN IF st.sel = None
       THEN [qp EXCEPT !.scrolling_state =
                DsSelect(st, IF IsSome(FindCurrentSongInQueue(ctx))
                             THEN FindCurrentSongInQueue(ctx) ELSE Some(0))]
       ELSE [qp EXCEPT !.scrolling_state = st]

\* config.select_current_song_on_change
SelectCurrentSongOnChange == TRUE

\* QueuePane::on_event: the pane afterwards and whether a render was requested.
QueueOnEvent(qp, event, ctx) ==
    IF event = "Player" /\ IsSome(FindCurrentSongInQueue(ctx))
    THEN [qp |-> IF SelectCurrentSongOnChange
                 THEN [qp EXCEPT !.scrolling_state =
                          DsSelect(@, FindCurrentSongInQueue(ctx))]
                 ELSE qp,
          render |-> TRUE]
    ELSE [qp |-> qp, render |-> FALSE]

\* --------------------------------------------------------------------- Ui
\* config.tabs.names
TabNames == <<"Queue", "Directories", "Albums">>

\* The keys of Ui.tabs (config.tabs.tabs).
TabMap == {"Queue", "Directories", "Albums"}

\* names.contains(&name)
IsTabName_Any(name) == TRUE

\* config.tabs.names.contains(name)
IsTabName(name) == \E i \in 1..Len(TabNames) : TabNames[i] = name

\* names.iter().enumerate().find(|(_, s)| **s == current_screen): 0-based.
TabIndex(name) ==
    IF IsTabName(name)
    THEN Some((CHOOSE i \in 1..Len(TabNames) :
                  TabNames[i] = name /\ \A j \in 1..(i - 1) : TabNames[j] # name) - 1)
    ELSE None

\* names.iter().enumerate().find(|(_, s)| **s == current_screen) on a given
\* list of names: the 0-based index of the first hit.
NameIndex(names, name) ==
    LET hits == {i \in 1..Len(names) : names[i] = name}
    IN IF hits = {} THEN None
       ELSE Some((CHOOSE i \in hits : \A j \in hits : i <= j) - 1)

\* Mutant of next_screen: the index is not taken modulo the number of names.
NextScreenOf_NoWrap(names, current_screen) ==
    LET idx == NameIndex(names, current_screen)
    IN IF IsSome(idx) /\ Unwrap(idx) + 1 < Len(names)
       THEN names[Unwrap(idx) + 2]
       ELSE current_screen

\* Config::next_screen, for the names of a configuration.
NextScreenOf(names, current_screen) ==
    LET idx == NameIndex(names, current_screen)
    IN IF IsSome(idx)
       THEN names[((Unwrap(idx) + 1) % Len(names)) + 1]
       ELSE current_screen

\* Config::prev_screen, for the names of a configuration.
PrevScreenOf(names, current_screen) ==
    LET idx == NameIndex(names, current_screen)
    IN IF IsSome(idx)
       THEN names[((IF Unwrap(idx) = 0 THEN Len(names) - 1 ELSE Unwrap(idx) - 1)
                   % Len(names)) + 1]
       ELSE current_screen

\* Config::next_screen
NextScreen(current_screen) == NextScreenOf(TabNames, current_screen)

\* Config::prev_screen
PrevScreen(current_screen) == PrevScreenOf(TabNames, current_screen)

\* The values of the enum Screens in a build: Logs exists in debug builds.
ScreensOf(debug) ==
    IF debug THEN {"Queue", "Logs", "Directories", "Artists", "Albums", "Playlists"}
    ELSE {"Queue", "Directories", "Artists", "Albums", "Playlists"}

\* Screens::next
ScreensNext(debug, self) ==
    CASE self = "Queue" -> IF debug THEN "Logs" ELSE "Directories"
      [] self = "Logs" -> "Directories"
      [] self = "Directories" -> "Artists"
      [] self = "Artists" -> "Albums"
      [] self = "Albums" -> "Playlists"
      [] self = "Playlists" -> "Queue"

\* Screens::prev
ScreensPrev(debug, self) ==
    CASE self = "Queue" -> "Playlists"
      [] self = "Playlists" -> "Albums"
      [] self = "Albums" -> "Artists"
      [] self = "Artists" -> "Directories"
      [] self = "Directories" -> IF debug THEN "Logs" ELSE "Queue"
      [] self = "Logs" -> "Queue"

\* What handling one event did to the Ui and what it returned; `invoked` are
\* the layers whose handler was called, `layers` those that consumed the
\* event, `recip` the modal that was handed the event, `trace` the steps of
\* change_tab, `failed` the step of change_tab that failed.
UiOut(cmd, tab, pane) ==
    [command |-> cmd, active_tab |-> tab, qp |-> pane, res |-> "None",
     sent |-> <<>>, cmds |-> <<>>, render |-> FALSE, status |-> <<>>,
     trace |-> <<>>, failed |-> "none", invoked |-> {}, layers |-> {},
     recip |-> None]

\* TabScreen::on_hide of a tab: it succeeds or fails.
TabOnHide(tab) == {"Ok", "Err"}

\* TabScreen::before_show of a tab: the panes afterwards, or a failure.
TabBeforeShow(tab, qp, ctx) ==
    {[res |-> "Ok", qp |-> IF tab = "Queue" THEN QueueBeforeShow(qp, ctx) ELSE qp],
     [res |-> "Err", qp |-> qp]}

\* Mutant of change_tab: the pointer is set only after before_show succeeded.
ChangeTab_SetsPointerLast(o, new_tab, ctx) ==
    IF o.active_tab \notin TabMap THEN {[o EXCEPT !.res = "Err"]}
    ELSE LET hidden == [o EXCEPT !.trace = Append(@, <<"on_hide", o.active_tab>>)]
         IN {[hidden EXCEPT !.res = "Err", !.failed = "on_hide"] :
                 r \in TabOnHide(o.active_tab) \ {"Ok"}}
            \cup
            (IF "Ok" \notin TabOnHide(o.active_tab) THEN {}
             ELSE IF new_tab \notin TabMap THEN {[hidden EXCEPT !.res = "Err"]}
             ELSE {IF b.res = "Ok"
                   THEN [hidden EXCEPT !.trace = hidden.trace
                                           \o <<(<<"before_show", new_tab>>),
                                                (<<"set", new_tab>>)>>,
                                       !.active_tab = new_tab,
                                       !.qp = b.qp]
                   ELSE [hidden EXCEPT !.trace = Append(@, <<"before_show", new_tab>>),
                                       !.res = "Err", !.failed = "before_show"] :
                       b \in TabBeforeShow(new_tab, o.qp, ctx)})

\* Mutant of change_tab: a failure of on_hide is ignored.
ChangeTab_IgnoresOnHide(o, new_tab, ctx) ==
    IF o.active_tab \notin TabMap THEN {[o EXCEPT !.res = "Err"]}
    ELSE LET hidden == [o EXCEPT !.trace = Append(@, <<"on_hide", o.active_tab>>)]
         IN UNION {
              LET h == IF r = "Ok" THEN hidden ELSE [hidden EXCEPT !.failed = "on_hide"]
                  set == [h EXCEPT !.active_tab = new_tab,
                                   !.trace = Append(@, <<"set", new_tab>>)]
              IN {IF b.res = "Ok"
                  THEN [set EXCEPT !.trace = Append(@, <<"before_show", new_tab>>),
                                   !.qp = b.qp]
                  ELSE [set EXCEPT !.trace = Append(@, <<"before_show", new_tab>>),
                                   !.res = "Err", !.failed = "before_show"] :
                      b \in TabBeforeShow(new_tab, o.qp, ctx)} :
              r \in TabOnHide(o.active_tab)}

\* Mutant of change_tab: the pointer is put back when before_show fails.
ChangeTab_RestoresOnFailure(o, new_tab, ctx) ==
    IF o.active_tab \notin TabMap THEN {[o EXCEPT !.res = "Err"]}
    ELSE LET hidden == [o EXCEPT !.trace = Append(@, <<"on_hide", o.active_tab>>)]
             set == [hidden EXCEPT !.active_tab = new_tab,
                                   !.trace = Append(@, <<"set", new_tab>>)]
         IN UNION {
              IF r = "Err" THEN {[hidden EXCEPT !.res = "Err", !.failed = "on_hide"]}
              ELSE IF new_tab \notin TabMap THEN {[set EXCEPT !.res = "Err"]}
              ELSE {IF b.res = "Ok"
                    THEN [set EXCEPT !.trace = Append(@, <<"before_show", new_tab>>),
                                     !.qp = b.qp]
                    ELSE [set EXCEPT !.trace = Append(@, <<"before_show", new_tab>>),
                                     !.active_tab = o.active_tab,
                                     !.res = "Err", !.failed = "before_show"] :
                        b \in TabBeforeShow(new_tab, o.qp, ctx)} :
              r \in TabOnHide(o.active_tab)}

\* Ui::change_tab: on_hide of the active tab, the pointer, before_show.
ChangeTab(o, new_tab, ctx) ==
    IF o.active_tab \notin TabMap THEN {[o EXCEPT !.res = "Err"]}
    ELSE LET hidden == [o EXCEPT !.trace = Append(@, <<"on_hide", o.active_tab>>)]
             set == [hidden EXCEPT !.active_tab = new_tab,
                                   !.trace = Append(@, <<"set", new_tab>>)]
         IN UNION {
              IF r = "Err" THEN {[hidden EXCEPT !.res = "Err", !.failed = "on_hide"]}
              ELSE IF new_tab \notin TabMap THEN {[set EXCEPT !.res = "Err"]}
              ELSE {IF b.res = "Ok"
                    THEN [set EXCEPT !.trace = Append(@, <<"before_show", new_tab>>),
                                     !.qp = b.qp]
                    ELSE [set EXCEPT !.trace = Append(@, <<"before_show", new_tab>>),
                                     !.res = "Err", !.failed = "before_show"] :
                        b \in TabBeforeShow(new_tab, o.qp, ctx)} :
              r \in TabOnHide(o.active_tab)}

\* `self.change_tab(..)?; context.render()?`
ChangeTabAndRender(o, new_tab, ctx) ==
    {IF c.res = "Err" THEN c ELSE WithRender(c) : c \in ChangeTab(o, new_tab, ctx)}

\* A player call made with `?`: it succeeds (the command is recorded) or the
\* handler returns its error.
ClientCall(o, c) == {WithCmd(o, c), Failed(o)}

\* command.parse() and cmd.execute(..) of a typed command line: a parse
\* error, no command, a command that ran, or one whose execution failed.
RunCommandLine(o) ==
    {WithRender(WithStatus(o, "Error")), WithRender(o),
     WithRender(WithCmd(o, <<"execute">>)), Failed(o)}

\* Ui::handle_key, command-line layer (self.command is Some).
CommandLayer(o, k) ==
    LET a == AsCommonAction(KeyEvent(k))
        c == [o EXCEPT !.invoked = {"command"}, !.layers = {"command"}]
    IN IF a.act = "Close" THEN {WithRender([c EXCEPT !.command = None])}
       ELSE IF a.act = "Confirm" THEN RunCommandLine([c EXCEPT !.command = None])
       ELSE IF IsSome(CharOf(k))
       THEN {WithRender([c EXCEPT !.command = PushChar(@, Unwrap(CharOf(k)))])}
       ELSE IF k = "Backspace" THEN {WithRender([c EXCEPT !.command = PopChar(@)])}
       ELSE {c}

\* Modal::handle_key of the modal on top: it does nothing visible, asks to
\* be closed, opens a further modal, or fails.
ModalHandleKey(modal, k) ==
    {[res |-> "Ok", sent |-> <<>>],
     [res |-> "Ok", sent |-> <<[type |-> "PopModal", kind |-> "-"]>>],
     [res |-> "Ok", sent |-> <<[type |-> "Modal", kind |-> "ConfirmQueueClear"]>>],
     [res |-> "Err", sent |-> <<>>]}

\* Mutant of the modal layer: the key goes to the oldest modal of the stack.
ModalLayer_Oldest(o, ms, k) ==
    LET m == [o EXCEPT !.invoked = {"modal"}, !.layers = {"modal"},
                       !.recip = Some(ms[1])]
    IN {[m EXCEPT !.res = IF r.res = "Err" THEN "Err" ELSE "None", !.sent = r.sent] :
            r \in ModalHandleKey(ms[1], k)}

\* Ui::handle_key, modal layer (self.modals.last_mut() is Some).
ModalLayer(o, ms, k) ==
    LET m == [o EXCEPT !.invoked = {"modal"}, !.layers = {"modal"},
                       !.recip = Some(ms[Len(ms)])]
    IN {[m EXCEPT !.res = IF r.res = "Err" THEN "Err" ELSE "None", !.sent = r.sent] :
            r \in ModalHandleKey(ms[Len(ms)], k)}

\* handle_action of a pane other than the queue pane: it consumes the key,
\* lets it fall through, or fails.
OtherPaneHandleAction(qp, ke) ==
    Acted({PaneOut(qp, StopPropagation(ke)), Failed(PaneOut(qp, StopPropagation(ke)))})
    \cup {PaneOut(qp, Abandon(ke))}

\* TabScreen::handle_action: the focused pane of the tab handles the key.
TabHandleAction(tab, qp, ke, ctx) ==
    IF tab = "Queue" THEN QueueHandleAction(qp, ke, ctx)
    ELSE OtherPaneHandleAction(qp, ke)

\* context.status.state == State::Play
StatePlay(ctx) == ctx.state = "Play"

\* Mutant of the guard of TogglePause and of the seeks: any state will do.
StatePlayOrPause_Any(ctx) == TRUE

\* matches!(context.status.state, State::Play | State::Pause)
StatePlayOrPause(ctx) == ctx.state \in {"Play", "Pause"}

\* Ui::handle_key, the match on a bound GlobalAction.
GlobalLayer(o, action, ctx) ==
    LET playing == StatePlay(ctx)
        started == StatePlayOrPause(ctx)
    IN CASE action = "Command" ->
              {[o EXCEPT !.command = None],
               WithCmd([o EXCEPT !.command = None], <<"execute">>),
               Failed([o EXCEPT !.command = None])}
         [] action = "CommandMode" -> {WithRender([o EXCEPT !.command = Some(<<>>)])}
         [] action = "NextTrack" -> IF playing THEN ClientCall(o, <<"next">>) ELSE {o}
         [] action = "PreviousTrack" -> IF playing THEN ClientCall(o, <<"prev">>) ELSE {o}
         [] action = "Stop" -> IF playing THEN ClientCall(o, <<"stop">>) ELSE {o}
         [] action = "ToggleRepeat" -> ClientCall(o, <<"repeat">>)
         [] action = "ToggleRandom" -> ClientCall(o, <<"random">>)
         [] action = "ToggleSingle" -> ClientCall(o, <<"single">>)
         [] action = "ToggleConsume" -> ClientCall(o, <<"consume">>)
         [] action = "TogglePause" ->
              IF started THEN ClientCall(o, <<"pause_toggle">>) ELSE {o}
         [] action = "VolumeUp" -> ClientCall(o, <<"set_volume", "inc">>)
         [] action = "VolumeDown" -> ClientCall(o, <<"set_volume", "dec">>)
         [] action = "SeekForward" ->
              IF started THEN ClientCall(o, <<"seek_current", "+5">>) ELSE {o}
         [] action = "SeekBack" ->
              IF started THEN ClientCall(o, <<"seek_current", "-5">>) ELSE {o}
         [] action = "NextTab" -> ChangeTabAndRender(o, NextScreen(o.active_tab), ctx)
         [] action = "PreviousTab" -> ChangeTabAndRender(o, PrevScreen(o.active_tab), ctx)
         [] action = "SwitchToTab:Queue" ->
              IF IsTabName("Queue") THEN ChangeTabAndRender(o, "Queue", ctx)
              ELSE {WithStatus(o, "Error")}
         [] action = "SwitchToTab:Albums" ->
              IF IsTabName("Albums") THEN ChangeTabAndRender(o, "Albums", ctx)
              ELSE {WithStatus(o, "Error")}
         [] action = "SwitchToTab:Nowhere" ->
              IF IsTabName("Nowhere") THEN ChangeTabAndRender(o, "Nowhere", ctx)
              ELSE {WithStatus(o, "Error")}
         [] action = "ExternalCommand" -> ClientCall(o, <<"run_external">>)
         [] action = "Quit" -> {[o EXCEPT !.res = "Quit"]}
         [] action = "ShowHelp" -> {WithModal(o, "Keybinds")}
         [] action = "ShowOutputs" ->
              {WithModal(WithCmd(o, <<"outputs">>), "Outputs"), Failed(o)}
         [] action = "ShowDecoders" ->
              {WithModal(WithCmd(o, <<"decoders">>), "Decoders"), Failed(o)}
         [] action = "ShowCurrentSongInfo" ->
              {WithModal(o, "SongInfo"), WithStatus(o, "Info"), Failed(o)}

\* Ui::handle_key below the modal layer: the active pane, then the global
\* bindings for a key the pane left unhandled.
PaneAndGlobalLayers(o, k, ctx) ==
    IF o.active_tab \notin TabMap THEN {[o EXCEPT !.res = "Err"]}
    ELSE UNION {
           LET afterPane == [o EXCEPT !.qp = p.qp, !.sent = p.sent, !.cmds = p.cmds,
                                      !.render = p.render, !.status = p.status,
                                      !.invoked = {"pane"},
                                      !.layers = IF p.acted THEN {"pane"} ELSE {}]
               ga == AsGlobalAction(p.ke)
           IN IF p.res = "Err" THEN {[afterPane EXCEPT !.res = "Err"]}
              ELSE IF ga.act # "None"
              THEN GlobalLayer([afterPane EXCEPT !.invoked = @ \cup {"global"},
                                                 !.layers = @ \cup {"global"}],
                               ga.act, ctx)
              ELSE {afterPane} :
           p \in TabHandleAction(o.active_tab, o.qp, KeyEvent(k), ctx)}

\* Mutant of handle_key: the modal stack is looked at before the command line.
UiHandleKey_ModalFirst(cmd, ms, tab, pane, k, ctx) ==
    LET o == UiOut(cmd, tab, pane)
    IN IF ms # <<>> THEN ModalLayer(o, ms, k)
       ELSE IF IsSome(cmd) THEN CommandLayer(o, k)
       ELSE PaneAndGlobalLayers(o, k, ctx)

\* Mutant of handle_key: open modals are not looked at.
UiHandleKey_SkipsModals(cmd, ms, tab, pane, k, ctx) ==
    LET o == UiOut(cmd, tab, pane)
    IN IF IsSome(cmd) THEN CommandLayer(o, k)
       ELSE PaneAndGlobalLayers(o, k, ctx)

\* Ui::handle_key
UiHandleKey(cmd, ms, tab, pane, k, ctx) ==
    LET o == UiOut(cmd, tab, pane)
    IN IF IsSome(cmd) THEN CommandLayer(o, k)
       ELSE IF ms # <<>> THEN ModalLayer(o, ms, k)
       ELSE PaneAndGlobalLayers(o, k, ctx)

\* Ui::on_event, the broadcast: each active pane in turn is handed the
\* event; the first failure ends the loop and is recorded in `failed`. A pane
\* other than the queue pane handles the event or fails.
ActivePanes == <<"Queue", "Directories", "Albums">>

\* Mutant of the broadcast: the panes after one that failed are still handed
\* the event; the first error is returned at the end.
RECURSIVE Broadcast_KeepsGoing(_, _, _, _)
Broadcast_KeepsGoing(b, names, event, ctx) ==
    IF names = <<>> THEN {b}
    ELSE LET got == [b EXCEPT !.delivered = Append(@, Head(names))]
         IN IF Head(names) = "Queue"
            THEN LET q == QueueOnEvent(b.qp, event, ctx)
                 IN Broadcast_KeepsGoing([got EXCEPT !.qp = q.qp, !.render = @ \/ q.render],
                                         Tail(names), event, ctx)
            ELSE Broadcast_KeepsGoing(got, Tail(names), event, ctx)
                 \cup Broadcast_KeepsGoing(
                          [got EXCEPT !.res = "Err",
                                      !.failed = IF @ = None THEN Some(Head(names)) ELSE @],
                          Tail(names), event, ctx)

RECURSIVE Broadcast(_, _, _, _)
Broadcast(b, names, event, ctx) ==
    IF names = <<>> THEN {b}
    ELSE LET got == [b EXCEPT !.delivered = Append(@, Head(names))]
         IN IF Head(names) = "Queue"
            THEN LET q == QueueOnEvent(b.qp, event, ctx)
                 IN Broadcast([got EXCEPT !.qp = q.qp, !.render = @ \/ q.render],
                              Tail(names), event, ctx)
            ELSE Broadcast(got, Tail(names), event, ctx)
                 \cup {[got EXCEPT !.res = "Err", !.failed = Some(Head(names))]}

\* Ui::on_event for the events that need no bookkeeping of the router
\* (ModalOpened, ModalClosed, StoredPlaylist, Resized, Exit).
UiOnEvent(qp, event, ctx) ==
    Broadcast([qp |-> qp, res |-> "Ok", render |-> FALSE, delivered |-> <<>>,
               failed |-> None],
              ActivePanes, event, ctx)

\* The UiEvents the host hands to Ui::on_event.
UiEvents ==
    {"Player", "Database", "StoredPlaylist", "LogAdded", "Resized", "ModalOpened",
     "ModalClosed", "Exit"}

\* client.get_current_song(): the song of the queue that status.songid names.
GetCurrentSong(ctx) ==
    IF IsSome(FindCurrentSongInQueue(ctx))
    THEN Some(ctx.queue[Unwrap(FindCurrentSongInQueue(ctx)) + 1])
    ELSE None

\* try_ret!(call, message): the value of the call, or an Error status and the
\* error returned to the caller.
TryRet(value, otherwise) ==
    {[res |-> "Ok", value |-> value, status |-> <<>>],
     [res |-> "Err", value |-> otherwise, status |-> <<"Error">>]}

\* Ui::on_event, the `match event` before the loop: Player refreshes
\* current_song, Database raises a warning, the other events do nothing (no
\* tab of the model holds the Logs pane).
UiOnEventBookkeeping(cur, event, ctx) ==
    IF event = "Player"
    THEN {[current_song |-> t.value, res |-> t.res, status |-> t.status] :
             t \in TryRet(GetCurrentSong(ctx), cur)}
    ELSE IF event = "Database"
    THEN {[current_song |-> cur, res |-> "Ok", status |-> <<"Warn">>]}
    ELSE {[current_song |-> cur, res |-> "Ok", status |-> <<>>]}

\* Mutant of on_event: only the pane of the visible tab is handed the event.
UiOnEventWhole_VisibleOnly(cur, qp, event, ctx) ==
    UNION {
      IF k.res = "Err"
      THEN {[current_song |-> k.current_song, qp |-> qp, res |-> "Err",
             render |-> FALSE, status |-> k.status, steps |-> <<"bookkeeping">>,
             failed |-> None]}
      ELSE {[current_song |-> k.current_song, qp |-> b.qp, res |-> b.res,
             render |-> b.render, status |-> k.status,
             steps |-> <<"bookkeeping">> \o b.delivered, failed |-> b.failed] :
               b \in Broadcast([qp |-> qp, res |-> "Ok", render |-> FALSE,
                                delivered |-> <<>>, failed |-> None],
                               SelectSeq(ActivePanes, LAMBDA n : n = active_tab),
                               event, ctx)} :
      k \in UiOnEventBookkeeping(cur, event, ctx)}

\* Ui::on_event: the bookkeeping, then the loop over the active panes.
UiOnEventWhole(cur, qp, event, ctx) ==
    UNION {
      IF k.res = "Err"
      THEN {[current_song |-> k.current_song, qp |-> qp, res |-> "Err",
             render |-> FALSE, status |-> k.status, steps |-> <<"bookkeeping">>,
             failed |-> None]}
      ELSE {[current_song |-> k.current_song, qp |-> b.qp, res |-> b.res,
             render |-> b.render, status |-> k.status,
             steps |-> <<"bookkeeping">> \o b.delivered, failed |-> b.failed] :
               b \in Broadcast([qp |-> qp, res |-> "Ok", render |-> FALSE,
                                delivered |-> <<>>, failed |-> None],
                               ActivePanes, event, ctx)} :
      k \in UiOnEventBookkeeping(cur, event, ctx)}

\* Mutant of on_ui_app_event: PopModal removes the oldest modal.
AfterAppEvent_PopsOldest(ms, e) ==
    IF e.type = "Modal" THEN Append(ms, [kind |-> e.kind, id |-> Len(ms) + 1])
    ELSE IF ms = <<>> THEN ms ELSE Tail(ms)

\* Ui::on_ui_app_event, the modal stack: Vec::push / Vec::pop.
AfterAppEvent(ms, e) ==
    IF e.type = "Modal" THEN Append(ms, [kind |-> e.kind, id |-> Len(ms) + 1])
    ELSE IF ms = <<>> THEN ms ELSE Front(ms)

\* ------------------------------------------------------------ mouse events
\* ratatui Rect
Rect(x, y, width, height) == [x |-> x, y |-> y, width |-> width, height |-> height]

\* Rect::default()
RectDefault == Rect(0, 0, 0, 0)

\* Rect::contains(position)
RectContains(r, px, py) ==
    /\ px >= r.x /\ px < r.x + r.width
    /\ py >= r.y /\ py < r.y + r.height

\* enum_map! { _ => Rect::default() }
AreasDefault == [a \in {"Header", "Tabs", "Content", "Bar"} |-> RectDefault]

\* QueuePane::new: table_area is Rect::default(), the table is not scrolled.
TableDefault == [area |-> RectDefault, offset |-> 0]

\* The frame: four columns, five rows.
FrameArea == Rect(0, 0, 4, 5)

\* config.theme.header.rows.len()
HeaderRows == 1

\* The height of the tab bar: enabled, without borders.
TabAreaHeight == 1

\* Ui::calc_areas: header, tab bar, content and status bar from top to
\* bottom; the bar takes one row, the content what is left.
CalcAreas(area, tab_area_height) ==
    [a \in {"Header", "Tabs", "Content", "Bar"} |->
        CASE a = "Header" -> Rect(area.x, area.y, area.width, HeaderRows)
          [] a = "Tabs" -> Rect(area.x, area.y + HeaderRows, area.width, tab_area_height)
          [] a = "Content" ->
                Rect(area.x, area.y + HeaderRows + tab_area_height, area.width,
                     SatSub(area.height, HeaderRows + tab_area_height + 1))
          [] OTHER -> Rect(area.x, area.y + SatSub(area.height, 1), area.width, 1)]

\* AppTabs::get_tab_idx_at: every tab is one column wide, from column 0.
GetTabIdxAt(x) == IF x < Len(TabNames) THEN Some(x) ELSE None

\* table_block.inner(queue_section) without header and borders: the padding
\* takes one column on the left and two on the right.
TableArea(area) == Rect(area.x + 1, area.y, SatSub(area.width, 3), area.height)

\* The offset of the table after a selection or a render: the selected row
\* is kept inside the viewport.
OffsetFor(st, offset) ==
    IF st.sel = None \/ st.viewport_len = None THEN offset
    ELSE IF Unwrap(st.sel) < offset THEN Unwrap(st.sel)
    ELSE IF Unwrap(st.sel) >= offset + Unwrap(st.viewport_len)
         THEN SatSub(Unwrap(st.sel) + 1, Unwrap(st.viewport_len))
    ELSE offset

\* DirState::get_at_rendered_row(row): the item shown on a row of the table.
DsGetAtRenderedRow(st, offset, row) ==
    IF IsSome(st.content_len) /\ row + offset < Unwrap(st.content_len)
    THEN Some(row + offset)
    ELSE None

\* The kinds of mouse events.
MouseKinds == {"LeftClick", "DoubleClick", "RightClick", "ScrollDown", "ScrollUp"}

\* Mutant of the queue pane's mouse handler: a click selects the row counted
\* from the top of the table, the scroll offset is not added.
QueueHandleMouseEvent_IgnoresOffset(qp, tbl, kind, x, y, ctx) ==
    LET o == PaneOut(qp, KeyEvent("-"))
        clicked_row == SatSub(y, tbl.area.y)
        idx == DsGetAtRenderedRow(qp.scrolling_state, 0, clicked_row)
    IN IF ~RectContains(tbl.area, x, y) THEN {o}
       ELSE IF kind = "LeftClick" /\ IsSome(idx)
       THEN {WithRender([o EXCEPT !.qp.scrolling_state = DsSelect(@, idx)])}
       ELSE IF kind \in {"ScrollDown", "ScrollUp"} THEN {QueueHandleMouseScroll(qp, kind)}
       ELSE {o}

\* QueuePane::handle_mouse_event
QueueHandleMouseEvent(qp, tbl, kind, x, y, ctx) ==
    LET o == PaneOut(qp, KeyEvent("-"))
        clicked_row == SatSub(y, tbl.area.y)
        idx == DsGetAtRenderedRow(qp.scrolling_state, tbl.offset, clicked_row)
        song == IF IsSome(idx) /\ Unwrap(idx) < Len(ctx.queue)
                THEN Some(ctx.queue[Unwrap(idx) + 1]) ELSE None
    IN IF ~RectContains(tbl.area, x, y) THEN {o}
       ELSE CASE kind = "LeftClick" ->
                   IF IsSome(idx)
                   THEN {WithRender([o EXCEPT !.qp.scrolling_state = DsSelect(@, idx)])}
                   ELSE {o}
              [] kind = "DoubleClick" ->
                   IF IsSome(song)
                   THEN {IF c.res = "Err" THEN c ELSE WithRender(c) :
                            c \in ClientCall(o, <<"play_id", Unwrap(song).id>>)}
                   ELSE {o}
              [] kind = "MiddleClick" ->
                   IF IsSome(song)
                   THEN {IF c.res = "Err" THEN c ELSE WithRender(c) :
                            c \in ClientCall(o, <<"delete_id", Unwrap(song).id>>)}
                   ELSE {o}
              [] kind \in {"ScrollDown", "ScrollUp"} -> {QueueHandleMouseScroll(qp, kind)}
              [] OTHER -> {o}

\* handle_mouse_event of a pane other than the queue pane: it returns Ok or
\* fails.
OtherPaneHandleMouseEvent(qp) ==
    {PaneOut(qp, KeyEvent("-")), Failed(PaneOut(qp, KeyEvent("-")))}

\* TabScreen::handle_mouse_event: the pane of the tab is handed the event.
TabHandleMouseEvent(tab, qp, tbl, kind, x, y, ctx) ==
    IF tab = "Queue" THEN QueueHandleMouseEvent(qp, tbl, kind, x, y, ctx)
    ELSE OtherPaneHandleMouseEvent(qp)

\* Modal::handle_mouse_event of the modal on top: it returns Ok or fails.
ModalHandleMouseEvent(modal, kind) == {"Ok", "Err"}

\* `client.call()?; context.render()?`
ThenRender(outs) == {IF c.res = "Err" THEN c ELSE WithRender(c) : c \in outs}

\* Mutant of Ui::handle_mouse_event: after the modal on top was handed the
\* event, a left click in the header still toggles pause.
UiHandleMouseEvent_UnderModal(o, ms, ar, tbl, kind, x, y, ctx) ==
    LET m == [o EXCEPT !.invoked = {"modal"}, !.layers = {"modal"},
                       !.recip = IF ms # <<>> THEN Some(ms[Len(ms)]) ELSE None]
    IN IF kind = "LeftClick" /\ RectContains(ar["Header"], x, y)
       THEN ThenRender(ClientCall(m, "pause_toggle"))
       ELSE {m}

\* Mutant of Ui::handle_mouse_event: a left click in the status bar seeks
\* whatever the play state is.
UiHandleMouseEvent_SeeksWhenStopped(o, ms, ar, tbl, kind, x, y, ctx) ==
    LET in(a) == RectContains(ar[a], x, y)
        at(l) == [o EXCEPT !.layers = {l}]
    IN IF ms # <<>>
       THEN {[o EXCEPT !.invoked = {"modal"}, !.layers = {"modal"},
                       !.recip = Some(ms[Len(ms)]),
                       !.res = IF r = "Err" THEN "Err" ELSE "None"] :
                r \in ModalHandleMouseEvent(ms[Len(ms)], kind)}
       ELSE CASE kind = "LeftClick" /\ in("Header") ->
                   ThenRender(ClientCall(at("header"), "pause_toggle"))
              [] kind = "ScrollUp" /\ in("Header") ->
                   ThenRender(ClientCall(at("header"), "volume_up"))
              [] kind = "ScrollDown" /\ in("Header") ->
                   ThenRender(ClientCall(at("header"), "volume_down"))
              [] kind = "LeftClick" /\ in("Bar") ->
                   ThenRender(ClientCall(at("bar"), "seek_current"))
              [] kind = "ScrollDown" /\ in("Tabs") ->
                   ChangeTabAndRender(at("tabs"), NextScreen(o.active_tab), ctx)
              [] kind = "ScrollUp" /\ in("Tabs") ->
                   ChangeTabAndRender(at("tabs"), PrevScreen(o.active_tab), ctx)
              [] kind = "LeftClick" /\ in("Tabs") ->
                   IF IsSome(GetTabIdxAt(x))
                      /\ TabNames[Unwrap(GetTabIdxAt(x)) + 1] # o.active_tab
                   THEN ChangeTabAndRender(at("tabs"),
                                           TabNames[Unwrap(GetTabIdxAt(x)) + 1], ctx)
                   ELSE {at("tabs")}
              [] in("Content") ->
                   {[o EXCEPT !.invoked = {"pane"}, !.layers = {"pane"}, !.qp = p.qp,
                              !.res = IF p.res = "Err" THEN "Err" ELSE "None",
                              !.render = p.render, !.cmds = p.cmds] :
                       p \in TabHandleMouseEvent(o.active_tab, o.qp, tbl, kind, x, y, ctx)}
              [] OTHER -> {o}

\* Ui::handle_mouse_event
UiHandleMouseEvent(o, ms, ar, tbl, kind, x, y, ctx) ==
    LET in(a) == RectContains(ar[a], x, y)
        at(l) == [o EXCEPT !.layers = {l}]
    IN IF ms # <<>>
       THEN {[o EXCEPT !.invoked = {"modal"}, !.layers = {"modal"},
                       !.recip = Some(ms[Len(ms)]),
                       !.res = IF r = "Err" THEN "Err" ELSE "None"] :
                r \in ModalHandleMouseEvent(ms[Len(ms)], kind)}
       ELSE CASE kind = "LeftClick" /\ in("Header") ->
                   ThenRender(ClientCall(at("header"), "pause_toggle"))
              [] kind = "ScrollUp" /\ in("Header") ->
                   ThenRender(ClientCall(at("header"), "volume_up"))
              [] kind = "ScrollDown" /\ in("Header") ->
                   ThenRender(ClientCall(at("header"), "volume_down"))
              [] kind = "LeftClick" /\ in("Bar") ->
                   IF ctx.state \notin {"Play", "Pause"} THEN {at("bar")}
                   ELSE ThenRender(ClientCall(at("bar"), "seek_current"))
              [] kind = "ScrollDown" /\ in("Tabs") ->
                   ChangeTabAndRender(at("tabs"), NextScreen(o.active_tab), ctx)
              [] kind = "ScrollUp" /\ in("Tabs") ->
                   ChangeTabAndRender(at("tabs"), PrevScreen(o.active_tab), ctx)
              [] kind = "LeftClick" /\ in("Tabs") ->
                   IF IsSome(GetTabIdxAt(x))
                      /\ TabNames[Unwrap(GetTabIdxAt(x)) + 1] # o.active_tab
                   THEN ChangeTabAndRender(at("tabs"),
                                           TabNames[Unwrap(GetTabIdxAt(x)) + 1], ctx)
                   ELSE {at("tabs")}
              [] in("Content") ->
                   {[o EXCEPT !.invoked = {"pane"}, !.layers = {"pane"}, !.qp = p.qp,
                              !.res = IF p.res = "Err" THEN "Err" ELSE "None",
                              !.render = p.render, !.cmds = p.cmds] :
                       p \in TabHandleMouseEvent(o.active_tab, o.qp, tbl, kind, x, y, ctx)}
              [] OTHER -> {o}

\* ------------------------------------------------------- Ui: state machine
\* The record of an event and of what it did.
Ev(kind, key, o) ==
    [kind |-> kind, key |-> key, res |-> o.res, render |-> o.render,
     cmds |-> o.cmds, status |-> o.status, trace |-> o.trace, failed |-> o.failed,
     invoked |-> o.invoked, layers |-> o.layers, recip |-> o.recip,
     pre |-> [command |-> command, modals |-> modals, active_tab |-> active_tab,
              filter_input_mode |-> queue_pane.filter_input_mode,
              filter |-> queue_pane.filter]]

\* The number of Modal events in a sequence of app events.
RECURSIVE ModalCount(_)
ModalCount(es) ==
    IF es = <<>> THEN 0
    ELSE (IF Head(es).type = "Modal" THEN 1 ELSE 0) + ModalCount(Tail(es))

\* The bounds of the model: typed text, events in flight, open modals.
WithinBounds(o) ==
    /\ IsSome(o.command) => Len(Unwrap(o.command)) <= MaxStrLen
    /\ IsSome(o.qp.filter) => Len(Unwrap(o.qp.filter)) <= MaxStrLen
    /\ Len(pending) + Len(o.sent) <= MaxPending
    /\ Len(o.sent) > 0 => Len(modals) + ModalCount(pending \o o.sent) <= MaxModals

\* The record of a call on a DirStack made for a search result: the call, the
\* stack it found and, for a jump_back that directly follows a jump_forward
\* (`paired`), the stack that jump_forward found.
JLast(op, pre, start, paired) ==
    [op |-> op, pre |-> pre, start |-> start, paired |-> paired]

\* No jump made yet.
JumpIdle == jlast = JLast("new", DirStackNew(<<>>), DirStackNew(<<>>), FALSE)

\* The record of a Ui::on_event call: the event, the tab that was visible,
\* the steps taken in order ("bookkeeping", then the name of each pane whose
\* on_event was called), the result, whether a render was requested, the
\* status messages raised and the queue pane the call found.
ELast(event, tab, o, pre) ==
    [event |-> event, tab |-> tab, steps |-> o.steps, res |-> o.res,
     render |-> o.render, status |-> o.status, failed |-> o.failed, pre |-> pre]

\* Ui::new: no current song; no event handled yet.
EventIdle ==
    /\ current_song = None
    /\ elast = ELast("none", TabNames[1],
                     [steps |-> <<>>, res |-> "Ok", render |-> FALSE, status |-> <<>>,
                      failed |-> None],
                     QueuePaneNew)

\* The record of a mouse event: its kind and position, the play state of the
\* context, and the queue pane and table it found.
MLastMouse(kind, x, y, ctx, qp, tbl) ==
    [kind |-> kind, x |-> x, y |-> y, state |-> ctx.state, queue |-> ctx.queue,
     qp |-> qp, table |-> tbl]

\* Ui::new: no area computed, no mouse event yet.
MouseIdle ==
    /\ areas = AreasDefault
    /\ table = TableDefault
    /\ mouse = MLastMouse("none", 0, 0, [queue |-> <<>>, state |-> "Stop", songid |-> None],
                          QueuePaneNew, TableDefault)

\* ------------------------------------------------------ directories screen
\* The keys given to the directories screen.
ScreenKeys ==
    {"a", "Backspace", "Enter", "Esc", "F3", "Right", "Left", "Down", "Up", "F2", "F6"}

\* event.code, as the filter input matches on it.
ScreenCode(k) ==
    CASE k = "a" -> "Char"
      [] k \in {"Backspace", "Enter", "Esc"} -> k
      [] OTHER -> "Other"

\* config.keybinds.directories: key -> DirectoriesActions ("None" when unbound).
DirectoriesOf(k) == IF k = "F3" THEN "AddAll" ELSE "None"

\* config.keybinds.navigation: key -> CommonAction ("None" when unbound).
NavigationOf(k) ==
    CASE k \in {"Right", "Left", "Down", "Up"} -> k
      [] k = "F2" -> "EnterSearch"
      [] k = "F6" -> "NextResult"
      [] OTHER -> "None"

\* What lsinfo may return to the directories screen.
ScreenListings == { <<>>, <<Dir(<<"a">>), Song(<<"b">>)>> }

\* DirectoriesScreen::default
ScreenDefault == [path |-> <<>>, filter_input_mode |-> FALSE]

\* What a call on the screen did: the stack, the path and the input mode
\* afterwards, the value returned ("Err" for an error) and the status
\* messages raised.
ScreenOut(s, scr) ==
    [stack |-> s, path |-> scr.path, filter_input_mode |-> scr.filter_input_mode,
     res |-> "RenderRequested", status |-> <<>>]

\* DirectoriesScreen::prepare_preview: None without a selection and when
\* lsinfo of the selected directory fails.
PreparePreview(s) ==
    LET sel == GetSelected(s.current.state)
    IN IF sel = None THEN {"None"}
       ELSE IF Unwrap(sel) >= Len(s.current.items) THEN {"Panic"}
       ELSE IF s.current.items[Unwrap(sel) + 1].kind = "Dir" THEN {"Some", "None"}
       ELSE {"Some"}

\* `self.stack.preview = self.prepare_preview(..).await.context(..)?;
\*  Ok(KeyHandleResult::RenderRequested)`
ThenPreview(o) ==
    {IF p = "Some" THEN o ELSE [o EXCEPT !.res = IF p = "None" THEN "Err" ELSE p] :
        p \in PreparePreview(o.stack)}

\* DirectoriesScreen::handle_action
DirectoriesHandleAction(s, scr, k) ==
    LET o == ScreenOut(s, scr)
        selected == DirStackGetSelected(s)
    IN IF scr.filter_input_mode
       THEN CASE ScreenCode(k) = "Char" -> {[o EXCEPT !.stack.filter = PushChar(@, k)]}
              [] ScreenCode(k) = "Backspace" -> {[o EXCEPT !.stack.filter = PopChar(@)]}
              [] ScreenCode(k) = "Enter" ->
                   {[o EXCEPT !.filter_input_mode = FALSE,
                              !.stack = DirStackJumpForward(s)]}
              [] ScreenCode(k) = "Esc" ->
                   {[o EXCEPT !.filter_input_mode = FALSE, !.stack.filter = None]}
              [] OTHER -> {[o EXCEPT !.res = "SkipRender"]}
       ELSE IF DirectoriesOf(k) = "AddAll"
       THEN IF selected = None THEN {o}
            ELSE {[o EXCEPT !.status = <<"Info">>], [o EXCEPT !.res = "Err"]}
       ELSE CASE NavigationOf(k) = "DownHalf" ->
                   ThenPreview([o EXCEPT !.stack = DirStackNextHalfViewport(s)])
              [] NavigationOf(k) = "UpHalf" ->
                   ThenPreview([o EXCEPT !.stack = DirStackPrevHalfViewport(s)])
              [] NavigationOf(k) = "Up" -> ThenPreview([o EXCEPT !.stack = DirStackPrev(s)])
              [] NavigationOf(k) = "Down" -> ThenPreview([o EXCEPT !.stack = DirStackNext(s)])
              [] NavigationOf(k) = "Bottom" -> ThenPreview([o EXCEPT !.stack = DirStackLast(s)])
              [] NavigationOf(k) = "Top" -> ThenPreview([o EXCEPT !.stack = DirStackFirst(s)])
              [] NavigationOf(k) = "Right" ->
                   IF selected = None THEN {[o EXCEPT !.res = "Err"]}
                   ELSE IF Unwrap(selected).kind = "Dir"
                   THEN LET pushed == [o EXCEPT !.path = Append(@, Unwrap(selected).name)]
                        IN {[pushed EXCEPT !.res = "Err"]}
                           \cup UNION {ThenPreview([pushed EXCEPT
                                                       !.stack = DirStackPush(s, new_current)]) :
                                           new_current \in ScreenListings}
                   ELSE {[o EXCEPT !.status = <<"Info">>], [o EXCEPT !.res = "Err"]}
              [] NavigationOf(k) = "Left" ->
                   ThenPreview([o EXCEPT !.stack = DirStackPop(s).stack,
                                         !.path = Front(@)])
              [] NavigationOf(k) = "EnterSearch" ->
                   {[o EXCEPT !.filter_input_mode = TRUE, !.stack.filter = Some(<<>>)]}
              [] NavigationOf(k) = "NextResult" -> {[o EXCEPT !.stack = DirStackJumpForward(s)]}
              [] NavigationOf(k) = "PreviousResult" ->
                   {[o EXCEPT !.stack = DirStackJumpBack(s)]}
              [] OTHER -> {[o EXCEPT !.res = "KeyNotHandled"]}

\* DirectoriesScreen::before_show
DirectoriesBeforeShow(s, scr) ==
    LET cleared == [scr EXCEPT !.path = <<>>]
    IN {[ScreenOut(s, cleared) EXCEPT !.res = "Err"]}
       \cup UNION {{[o EXCEPT !.res = IF @ = "RenderRequested" THEN "Ok" ELSE @] :
                       o \in ThenPreview(ScreenOut(DirStackNew(root), cleared))} :
                   root \in ScreenListings}

\* The record of a call on the screen: the call, its key, what it returned,
\* the status messages raised, and the stack, path and input mode it found.
SLast(op, k, o, s, scr) ==
    [op |-> op, key |-> k, res |-> o.res, status |-> o.status,
     pre |-> [stack |-> s, path |-> scr.path,
              filter_input_mode |-> scr.filter_input_mode]]

\* DirectoriesScreen::default, no call made yet.
ScreenIdle ==
    /\ screen = ScreenDefault
    /\ slast = SLast("new", "-", [res |-> "Ok", status |-> <<>>],
                     DirStackNew(<<>>), ScreenDefault)

\* --------------------------------------------------------- status message
\* std::time::Duration::from_secs(5): how long a status message is shown.
DisplaySecs == 5

\* The severities of a status message.
Levels == {"Info", "Error"}

\* The texts of the status messages of the model.
Messages == {"m1", "m2"}

\* StatusMessage { message, level, created }
StatusMessage(message, level, created) ==
    [message |-> message, level |-> level, created |-> created]

\* Instant::elapsed of the creation time of a message.
Elapsed(m, t) == t - m.created

\* Ui::display_message: the message held afterwards.
UiDisplayMessage(message, level, t) == Some(StatusMessage(message, level, t))

\* Mutant of render: the message is dropped as soon as its age reaches the
\* display duration.
UiRenderStatus_DropsAtDuration(sm, t) ==
    IF IsSome(sm) /\ Elapsed(Unwrap(sm), t) >= DisplaySecs THEN None ELSE sm

\* Ui::render, the status message: dropped once older than the duration.
UiRenderStatus(sm, t) ==
    IF IsSome(sm) /\ Elapsed(Unwrap(sm), t) > DisplaySecs THEN None ELSE sm

\* The record of a call: the call, the message it was given and the message
\* that was held before it.
RLast(op, arg, pre) == [op |-> op, arg |-> arg, pre |-> pre]

\* Ui::new: no status message.
StatusIdle ==
    /\ status_message = None
    /\ now = 0
    /\ rlast = RLast("new", None, None)

\* ------------------------------------------------------------- tab cycling
\* A configuration's tab names, the tab shown, the build and the screen shown.
Cycle(names, tab, debug, scr) ==
    [names |-> names, tab |-> tab, debug |-> debug, screen |-> scr]

\* The record of a step: the call, the tab and screen it found, the number of
\* next calls in a row so far and the tab and screen that row started from.
CLast(op, c, run, origin) ==
    [op |-> op, pre |-> [tab |-> c.tab, screen |-> c.screen], run |-> run,
     origin |-> origin]

\* The tab names of the default configuration, nothing applied.
CycleIdle ==
    /\ cycle = Cycle(TabNames, TabNames[1], FALSE, "Queue")
    /\ clast = CLast("new", cycle, 0, [tab |-> TabNames[1], screen |-> "Queue"])

\* ------------------------------------------------------ transport keys
\* The record of a key given to handle_key: the key, context.status.state
\* at the time and the Ui the call found.
TLast(op, key, state, cmd, ms, tab, qp) ==
    [op |-> op, key |-> key, state |-> state,
     pre |-> [command |-> cmd, modals |-> ms, active_tab |-> tab, queue_pane |-> qp]]

\* The player is stopped and no key was given.
TransportIdle ==
    /\ status_state = "Stop"
    /\ tlast = TLast("new", "-", "Stop", None, <<>>, TabNames[1], QueuePaneNew)

\* The parts modelled on their own, not in use.
AuxIdle ==
    EventIdle /\ MouseIdle /\ ScreenIdle /\ StatusIdle /\ CycleIdle /\ TransportIdle

\* A DirStack::new(Vec::new()) that is not used.
DirIdle ==
    /\ stack = DirStackNew(<<>>)
    /\ snap = <<>>
    /\ dlast = [op |-> "new", arg |-> Some(<<>>), ret |-> None,
                pre_depth |-> 1, pre_filter |-> None]
    /\ JumpIdle

\* A Ui::new that is not used.
UiIdle ==
    /\ command = None
    /\ modals = <<>>
    /\ active_tab = TabNames[1]
    /\ pending = <<>>
    /\ ev = Ev("new", "-", UiOut(None, TabNames[1], QueuePaneNew))

\* Ui::new
Init ==
    /\ command = None
    /\ modals = <<>>
    /\ active_tab = TabNames[1]
    /\ queue_pane = QueuePaneNew
    /\ pending = <<>>
    /\ ev = Ev("new", "-", UiOut(None, TabNames[1], QueuePaneNew))
    /\ stack = DirStackNew(<<>>)
    /\ snap = <<>>
    /\ dlast = [op |-> "new", arg |-> Some(<<>>), ret |-> None,
                pre_depth |-> 1, pre_filter |-> None]
    /\ JumpIdle
    /\ ScrollIdle
    /\ QueueIdle
    /\ AuxIdle

\* Ui::handle_key(key, context, client)
HandleKey ==
    \E k \in Keys, ctx \in Contexts :
        \E o \in UiHandleKey(command, modals, active_tab, queue_pane, k, ctx) :
            /\ WithinBounds(o)
            /\ command' = o.command
            /\ active_tab' = o.active_tab
            /\ queue_pane' = o.qp
            /\ pending' = pending \o o.sent
            /\ ev' = Ev("key", k, o)
            /\ UNCHANGED modals

\* Ui::on_ui_app_event(event, context, client), for the next event in flight.
OnUiAppEvent ==
    \E ctx \in Contexts :
        /\ pending # <<>>
        /\ \E b \in UiOnEvent(queue_pane, IF Head(pending).type = "Modal" THEN "ModalOpened"
                                  ELSE "ModalClosed", ctx) :
              /\ modals' = AfterAppEvent(modals, Head(pending))
              /\ pending' = Tail(pending)
              /\ queue_pane' = b.qp
              /\ ev' = Ev(Head(pending).type, "-",
                          [UiOut(command, active_tab, b.qp) EXCEPT
                              !.res = IF b.res = "Err" THEN "Err" ELSE "None",
                              !.render = b.res = "Ok"])
        /\ UNCHANGED <<command, active_tab>>

\* QueuePane::render: the queue length and the table height are recorded.
QueueRender(q, ctx, height) ==
    [q EXCEPT !.scrolling_state =
        DsSetViewportLen(DsSetContentLen(@, Some(Len(ctx.queue))), Some(height))]

\* Ui::render(frame, context): the panes of the active tab are rendered.
Render ==
    \E ctx \in Contexts, height \in Viewports :
        /\ active_tab = "Queue"
        /\ queue_pane' = QueueRender(queue_pane, ctx, height)
        /\ ev' = Ev("render", "-", UiOut(command, active_tab, queue_pane'))
        /\ UNCHANGED <<command, modals, active_tab, pending>>

Next ==
    /\ HandleKey \/ OnUiAppEvent \/ Render
    /\ UNCHANGED <<dirVars, scrollVars, qlast, auxVars>>

Spec == Init /\ [][Next]_vars

\* ------------------------------------------------------ claims on the router
\* C1: while the command line is open, a key given to handle_key is handled
\* by the command-line layer alone, also with modals open: no modal, no pane
\* and no global action sees it, no tab changes; Close and Confirm close the
\* buffer, a character is appended, Backspace removes the last character and
\* any other key leaves the buffer as it was.
C1_CommandLineOnly ==
    (ev.kind = "key" /\ IsSome(ev.pre.command)) =>
        LET buf == Unwrap(ev.pre.command)
        IN /\ ev.invoked = {"command"}
           /\ ev.layers = {"command"}
           /\ ev.recip = None
           /\ ev.trace = <<>>
           /\ ev.res # "Quit"
           /\ modals = ev.pre.modals
           /\ active_tab = ev.pre.active_tab
           /\ queue_pane.filter_input_mode = ev.pre.filter_input_mode
           /\ command = CASE CommonOf(ev.key) \in {"Close", "Confirm"} -> None
                          [] IsSome(CharOf(ev.key)) -> Some(Append(buf, ev.key))
                          [] ev.key = "Backspace" ->
                               IF buf = <<>> THEN Some(buf)
                               ELSE Some(SubSeq(buf, 1, Len(buf) - 1))
                          [] OTHER -> ev.pre.command

\* A key bound to a global action was typed into the open command line while
\* a modal was open.
C1_Witness ==
    /\ ev.kind = "key"
    /\ ev.key = "q"
    /\ ev.pre.command = Some(<<>>)
    /\ ev.pre.modals # <<>>
    /\ command = Some(<<"q">>)

\* C2: with the command line closed and modals open, a key is handed to the
\* topmost modal and to nothing else: the pane is not invoked, no global
\* action runs, and the active tab and the command buffer stay as they were.
C2_TopmostModalOnly ==
    (ev.kind = "key" /\ ev.pre.command = None /\ ev.pre.modals # <<>>) =>
        /\ ev.recip = Some(ev.pre.modals[Len(ev.pre.modals)])
        /\ ev.invoked = {"modal"}
        /\ ev.layers = {"modal"}
        /\ ev.trace = <<>>
        /\ ev.res # "Quit"
        /\ active_tab = ev.pre.active_tab
        /\ command = None

\* The key of NextTab went to the upper of two modals and the tab stayed.
C2_Witness ==
    /\ ev.kind = "key"
    /\ ev.key = "Tab"
    /\ ev.pre.command = None
    /\ Len(ev.pre.modals) = 2
    /\ ev.recip = Some(ev.pre.modals[2])
    /\ active_tab = ev.pre.active_tab

\* C3: no key is acted on by two layers, a global action runs only for a key
\* that reached the pane and that the pane did not act on, and a key that no
\* layer acted on had no binding in any layer that was reachable.
C3_OneLayerPerKey ==
    ev.kind = "key" =>
        /\ Cardinality(ev.layers) <= 1
        /\ "global" \in ev.layers =>
              /\ ev.pre.command = None
              /\ ev.pre.modals = <<>>
              /\ "pane" \in ev.invoked
              /\ "pane" \notin ev.layers
              /\ GlobalOf(ev.key) # "None"
        /\ ev.layers = {} =>
              /\ ev.pre.command = None
              /\ ev.pre.modals = <<>>
              /\ GlobalOf(ev.key) = "None"
              /\ ev.pre.active_tab = "Queue" =>
                    /\ ~ev.pre.filter_input_mode
                    /\ QueueOf(ev.key) = "None"
                    /\ CommonOf(ev.key) = "None"

\* A key bound both in the pane (Top) and globally (VolumeUp) was acted on
\* by the queue pane alone.
C3_Witness ==
    /\ ev.kind = "key"
    /\ ev.key = "Home"
    /\ ev.pre.command = None
    /\ ev.pre.modals = <<>>
    /\ ev.pre.active_tab = "Queue"
    /\ ev.layers = {"pane"}
    /\ ev.invoked = {"pane"}

\* C4: the modals are a stack: Modal(m) puts m on top, PopModal takes the
\* top one off, a key leaves the stack alone; with the command line closed a
\* key goes to the modal on top, and to the active pane once the stack is
\* empty.
C4_ModalsAreLifo ==
    /\ ev.kind = "Modal" =>
          /\ Len(modals) = Len(ev.pre.modals) + 1
          /\ SubSeq(modals, 1, Len(ev.pre.modals)) = ev.pre.modals
    /\ ev.kind = "PopModal" =>
          modals = IF ev.pre.modals = <<>> THEN <<>>
                   ELSE SubSeq(ev.pre.modals, 1, Len(ev.pre.modals) - 1)
    /\ ev.kind = "key" => modals = ev.pre.modals
    /\ (ev.kind = "key" /\ ev.pre.command = None) =>
          IF ev.pre.modals # <<>>
          THEN /\ ev.recip = Some(ev.pre.modals[Len(ev.pre.modals)])
               /\ "pane" \notin ev.invoked
          ELSE /\ ev.recip = None
               /\ "pane" \in ev.invoked

\* PopModal on a stack of two different modals left the older one on top.
C4_Witness ==
    /\ ev.kind = "PopModal"
    /\ Len(ev.pre.modals) = 2
    /\ ev.pre.modals[1].kind # ev.pre.modals[2].kind
    /\ modals = <<ev.pre.modals[1]>>

\* C5: change_tab calls on_hide of the outgoing tab, then sets the pointer,
\* then calls before_show of the incoming tab; when on_hide fails nothing
\* else happens: the pointer is not set and before_show is not called.
C5_ChangeTabOrder ==
    ev.trace # <<>> =>
        /\ ev.trace[1] = <<"on_hide", ev.pre.active_tab>>
        /\ IF ev.failed = "on_hide"
           THEN /\ Len(ev.trace) = 1
                /\ active_tab = ev.pre.active_tab
           ELSE /\ Len(ev.trace) = 3
                /\ ev.trace[2] = <<"set", active_tab>>
                /\ ev.trace[3] = <<"before_show", active_tab>>

\* A switch ran all three steps and changed the tab.
C5_Witness ==
    /\ Len(ev.trace) = 3
    /\ ev.failed = "none"
    /\ active_tab # ev.pre.active_tab

\* C6: when before_show of the incoming tab fails, the active tab is the
\* incoming tab and the handler that asked for the switch returns the error.
C6_BeforeShowFailureKeepsNewTab ==
    ev.failed = "before_show" =>
        /\ active_tab = IF ev.key = "Tab" THEN NextScreen(ev.pre.active_tab)
                        ELSE PrevScreen(ev.pre.active_tab)
        /\ active_tab # ev.pre.active_tab
        /\ ev.res = "Err"

\* NextTab from Queue: before_show of Directories failed, Directories is active.
C6_Witness ==
    /\ ev.failed = "before_show"
    /\ ev.key = "Tab"
    /\ ev.pre.active_tab = "Queue"
    /\ active_tab = "Directories"
    /\ ev.res = "Err"

\* C7 as stated: a switch in which on_hide or before_show fails leaves the
\* active tab as it was.
C7_FailedSwitchLeavesTab ==
    ev.failed # "none" => active_tab = ev.pre.active_tab

\* C7, amended: a failed switch returns the error without asking for a
\* render; the active tab is left as it was when on_hide failed, and is
\* already the incoming tab when before_show failed.
C7_OnlyOnHideFailureLeavesTab ==
    ev.failed # "none" =>
        /\ ev.res = "Err"
        /\ ~ev.render
        /\ ev.failed = "on_hide" => active_tab = ev.pre.active_tab
        /\ ev.failed = "before_show" =>
              /\ active_tab # ev.pre.active_tab
              /\ active_tab = ev.trace[2][2]

\* PreviousTab: on_hide of the outgoing tab failed and the tab stayed.
C7_Witness ==
    /\ ev.failed = "on_hide"
    /\ ev.key = "BackTab"
    /\ ev.res = "Err"
    /\ active_tab = ev.pre.active_tab

\* C21: every UiAppEvent::Modal puts exactly one modal on the stack and every
\* UiAppEvent::PopModal takes the topmost one off, and each of them ends with
\* a render request, also when a pane's on_event fails.
C21_ModalEventsAlwaysRender ==
    /\ ev.kind = "Modal" =>
          /\ Len(modals) = Len(ev.pre.modals) + 1
          /\ ev.render
    /\ ev.kind = "PopModal" =>
          /\ modals = (IF ev.pre.modals = <<>> THEN <<>> ELSE Front(ev.pre.modals))
          /\ ev.render

\* ------------------------------------------------- DirStack: state machine
\* What the last operation on the stack was: its argument, what it returned,
\* and the length of `others` and the filter it found.
DLast(op, arg, ret, s) ==
    [op |-> op, arg |-> arg, ret |-> ret,
     pre_depth |-> Len(s.others), pre_filter |-> s.filter]

\* What a push found: the frame that was current, the ancestors below it and
\* the items pushed.
Snapshot(s, head) == [current |-> s.current, others |-> s.others, pushed |-> head]

InitDir ==
    /\ \E root \in Listings :
          /\ stack = DirStackNew(root)
          /\ dlast = DLast("new", Some(root), None, DirStackNew(root))
    /\ snap = <<>>
    /\ JumpIdle
    /\ command = None
    /\ modals = <<>>
    /\ active_tab = TabNames[1]
    /\ queue_pane = QueuePaneNew
    /\ pending = <<>>
    /\ ev = Ev("new", "-", UiOut(None, TabNames[1], QueuePaneNew))
    /\ ScrollIdle
    /\ QueueIdle
    /\ AuxIdle

\* DirStack::new(root), as the owning screen does on before_show.
New ==
    \E root \in Listings :
        /\ stack' = DirStackNew(root)
        /\ snap' = <<>>
        /\ dlast' = DLast("new", Some(root), None, stack)

\* DirStack::push(head)
Push ==
    \E head \in Listings :
        /\ Len(stack.others) < MaxDepth
        /\ stack' = DirStackPush(stack, head)
        /\ snap' = Append(snap, Snapshot(stack, head))
        /\ dlast' = DLast("push", Some(head), None, stack)

\* DirStack::pop(); the snapshot of the matching push, if any, is kept in `arg`.
Pop ==
    LET r == DirStackPop(stack)
    IN /\ stack' = r.stack
       /\ snap' = IF IsSome(r.ret) /\ snap # <<>> THEN Front(snap) ELSE snap
       /\ dlast' = DLast("pop", IF snap # <<>> THEN Some(snap[Len(snap)]) ELSE None,
                         r.ret, stack)

\* DirStack::previous()
Previous ==
    /\ dlast' = DLast("previous", None, DirStackPrevious(stack), stack)
    /\ UNCHANGED <<stack, snap>>

\* The navigation methods of the stack.
Navigate ==
    \E op \in {"next", "prev", "first", "last", "next_half", "prev_half",
                "jump_forward", "jump_back"} :
        /\ stack' = CASE op = "next" -> DirStackNext(stack)
                     [] op = "prev" -> DirStackPrev(stack)
                     [] op = "first" -> DirStackFirst(stack)
                     [] op = "last" -> DirStackLast(stack)
                     [] op = "next_half" -> DirStackNextHalfViewport(stack)
                     [] op = "prev_half" -> DirStackPrevHalfViewport(stack)
                     [] op = "jump_forward" -> DirStackJumpForward(stack)
                     [] OTHER -> DirStackJumpBack(stack)
        /\ dlast' = DLast("navigate", None, None, stack)
        /\ UNCHANGED snap

\* The owner writes the public `filter` field (search input).
SetFilter ==
    \E f \in Filters :
        /\ stack' = [stack EXCEPT !.filter = Some(f)]
        /\ dlast' = DLast("filter", None, None, stack)
        /\ UNCHANGED snap

\* The browser widget renders the current frame: it records the number of
\* items and the height of the list area in the frame's scroll state.
RenderStack ==
    \E v \in Viewports :
        /\ stack' = OnCurrent(stack,
                        SetViewportLen(SetContentLen(stack.current.state,
                                                     Some(Len(stack.current.items))),
                                       Some(v)))
        /\ dlast' = DLast("render", None, None, stack)
        /\ UNCHANGED snap

NextDir ==
    /\ New \/ Push \/ Pop \/ Previous \/ Navigate \/ SetFilter \/ RenderStack
    /\ UNCHANGED <<uiVars, scrollVars, qlast, jlast, auxVars>>

SpecDir == InitDir /\ [][NextDir]_vars

\* ------------------------------------------------------ DirStack: claims
\* C8: the ancestor list `others` always holds at least one frame, so
\* previous() always finds a frame, and pop() on a stack whose only ancestor
\* is the sentinel returns None and removes nothing.
C8_OthersNeverEmpty ==
    /\ Len(stack.others) >= 1
    /\ dlast.op = "previous" => IsSome(dlast.ret)
    /\ (dlast.op = "pop" /\ dlast.pre_depth = 1) =>
           (dlast.ret = None /\ Len(stack.others) = 1)

\* C8 witness: a stack popped back to the root was popped once more.
C8_Witness ==
    /\ dlast.op = "pop"
    /\ dlast.pre_depth = 1
    /\ dlast.ret = None
    /\ stack.current.items # <<>>

\* C9: a pop that matches an earlier push returns Some frame holding the
\* items that were pushed and restores the current frame (items and scroll
\* state) and the ancestor list found by that push; with nested pushes this
\* holds level by level.
C9_PushPopRestores ==
    (dlast.op = "pop" /\ IsSome(dlast.arg)) =>
        /\ IsSome(dlast.ret)
        /\ Unwrap(dlast.ret).items = Unwrap(dlast.arg).pushed
        /\ stack.current = Unwrap(dlast.arg).current
        /\ stack.others = Unwrap(dlast.arg).others

\* C9 witness: the second of two nested pushes was undone, restoring a frame
\* whose selection had been moved off the first row.
C9_Witness ==
    /\ dlast.op = "pop"
    /\ IsSome(dlast.arg)
    /\ Len(snap) = 1
    /\ stack.current.state.sel = Some(1)
    /\ Unwrap(dlast.ret).items # <<>>

\* C10: push(items) puts the frame that was current, unchanged, on top of the
\* ancestor list, makes `items` the current frame with Some(0) selected when
\* items is non-empty and None when it is empty, and sets the filter to None.
C10_PushEffect ==
    dlast.op = "push" =>
        /\ snap # <<>>
        /\ stack.others = Append(snap[Len(snap)].others, snap[Len(snap)].current)
        /\ stack.current.items = Unwrap(dlast.arg)
        /\ stack.current.state.sel =
               (IF Unwrap(dlast.arg) # <<>> THEN Some(0) ELSE None)
        /\ stack.filter = None

\* C10 witness: an empty listing was pushed over a frame with a moved
\* selection while a filter was set.
C10_Witness ==
    /\ dlast.op = "push"
    /\ Unwrap(dlast.arg) = <<>>
    /\ IsSome(dlast.pre_filter)
    /\ snap[Len(snap)].current.state.sel = Some(2)

\* C11: a pop() that cannot pop past the root returns None and changes
\* nothing: the current frame with its selection, the ancestor list and the
\* filter are as before; a pop() that returns Some leaves the filter None.
C11_PopAtRootChangesNothing ==
    [][dlast'.op = "pop" =>
          IF dlast'.ret = None
          THEN /\ Len(stack.others) = 1
               /\ stack' = stack
          ELSE /\ Len(stack.others) > 1
               /\ stack'.filter = None]_vars

\* C11 witness: pop() returned None on a root frame whose filter was set and
\* whose selection had been moved; both are still there.
C11_Witness ==
    /\ dlast.op = "pop"
    /\ dlast.ret = None
    /\ dlast.pre_filter = Some(<<"a">>)
    /\ stack.filter = Some(<<"a">>)
    /\ stack.current.state.sel = Some(2)

\* ------------------------------------------ DirStack: search result jumps
\* A browsing pane on its own: a listing is loaded and rendered, the owner
\* sets or clears the filter and moves the selection, and jumps between the
\* search results.
InitJump ==
    /\ DirIdle
    /\ queue_pane = QueuePaneNew
    /\ UiIdle
    /\ ScrollIdle
    /\ QueueIdle
    /\ AuxIdle

\* The listings searched: those of the browsing pane and one in which the
\* first and the last item match the filter "a".
JumpListings ==
    Listings \cup { <<Dir(<<"a">>), Song(<<"b">>), Song(<<"a">>)>> }

\* DirStack::new(root), as the owning screen does on before_show.
JumpNew ==
    \E root \in JumpListings :
        /\ stack' = DirStackNew(root)
        /\ jlast' = JLast("new", stack, stack, FALSE)

\* The browser widget renders the current frame.
JumpRender ==
    \E v \in Viewports :
        /\ stack' = OnCurrent(stack,
                        SetViewportLen(SetContentLen(stack.current.state,
                                                     Some(Len(stack.current.items))),
                                       Some(v)))
        /\ jlast' = JLast("render", stack, stack, FALSE)

\* The owner writes the public `filter` field.
JumpSetFilter ==
    \E f \in {None} \cup {Some(g) : g \in Filters} :
        /\ stack' = [stack EXCEPT !.filter = f]
        /\ jlast' = JLast("filter", stack, stack, FALSE)

\* DirStack::next / DirStack::prev move the selection.
JumpMove ==
    \E op \in {"next", "prev"} :
        /\ stack' = IF op = "next" THEN DirStackNext(stack) ELSE DirStackPrev(stack)
        /\ jlast' = JLast(op, stack, stack, FALSE)

\* DirStack::jump_forward()
JumpForward ==
    /\ stack' = DirStackJumpForward(stack)
    /\ jlast' = JLast("jump_forward", stack, stack, FALSE)

\* DirStack::jump_back()
JumpBack ==
    /\ stack' = DirStackJumpBack(stack)
    /\ jlast' = JLast("jump_back", stack,
                      IF jlast.op = "jump_forward" THEN jlast.pre ELSE stack,
                      jlast.op = "jump_forward")

NextJump ==
    /\ \/ JumpNew
       \/ JumpRender
       \/ JumpSetFilter
       \/ JumpMove
       \/ JumpForward
       \/ JumpBack
    /\ UNCHANGED <<snap, dlast, uiVars, scrollVars, qlast, auxVars>>

SpecJump == InitJump /\ [][NextJump]_vars

\* ------------------------------------------------ DirStack: jump claims
\* C18: with a filter set and index s selected in a list of n items,
\* jump_forward selects the first matching index of s+1, ..., n-1, 0, ..., s-1
\* and jump_back the first matching index of s-1, ..., 0, n-1, ..., s+1; the
\* scan wraps around the ends of the list.
C18_JumpScansCyclically ==
    (jlast.op \in {"jump_forward", "jump_back"}
     /\ IsSome(jlast.pre.filter)
     /\ IsSome(jlast.pre.current.state.sel)
     /\ Unwrap(jlast.pre.current.state.sel) < Len(jlast.pre.current.items)) =>
        LET items == jlast.pre.current.items
            n == Len(items)
            s == Unwrap(jlast.pre.current.state.sel)
            order == IF jlast.op = "jump_forward"
                     THEN [k \in 1..(n - 1) |-> (s + k) % n]
                     ELSE [k \in 1..(n - 1) |-> ((s + n) - k) % n]
            hit == FirstMatch(items, order, Unwrap(jlast.pre.filter),
                              jlast.pre.filter_ignore_case)
        IN stack.current.state.sel = IF IsSome(hit) THEN hit ELSE Some(s)

\* C20: in a list with at least one item that matches the filter, jump_forward
\* directly followed by jump_back ends on an item that matches; when the item
\* selected at the start matches, the pair ends on the start index.
C20_ForwardBackRoundTrip ==
    (jlast.op = "jump_back" /\ jlast.paired
     /\ IsSome(jlast.start.filter)
     /\ IsSome(jlast.start.current.state.sel)
     /\ Unwrap(jlast.start.current.state.sel) < Len(jlast.start.current.items)
     /\ \E i \in 1..Len(jlast.start.current.items) :
            Matches(jlast.start.current.items[i], Unwrap(jlast.start.filter),
                    jlast.start.filter_ignore_case)) =>
        LET items == jlast.start.current.items
            s == Unwrap(jlast.start.current.state.sel)
            f == Unwrap(jlast.start.filter)
            ic == jlast.start.filter_ignore_case
            sel == stack.current.state.sel
        IN /\ IsSome(sel)
           /\ Unwrap(sel) < Len(items)
           /\ Matches(items[Unwrap(sel) + 1], f, ic)
           /\ Matches(items[s + 1], f, ic) => sel = Some(s)

\* ------------------------------------------------ MyState: state machine
\* The lengths a render may record: unknown, or 0 .. MaxLen.
Lengths == {None} \cup {Some(n) : n \in 0..MaxLen}

\* The count of calls of `op` in a row that the call being made completes,
\* and the state the first of them found.
Streak(op) ==
    IF mlast.op = op
    THEN [n |-> Min(mlast.streak + 1, MaxLen + 1), start |-> mlast.start]
    ELSE [n |-> 1, start |-> mystate]

InitScroll ==
    /\ ScrollIdle
    /\ DirIdle
    /\ queue_pane = QueuePaneNew
    /\ UiIdle
    /\ QueueIdle
    /\ AuxIdle

\* The state of a frame made by DirStack::new / DirStack::push: default, and
\* Some(0) selected when the listing is not empty.
ScrollFresh ==
    \E nonempty \in BOOLEAN :
        /\ mystate' = IF nonempty THEN MyStateSelect(MyStateDefault, Some(0))
                 ELSE MyStateDefault
        /\ mlast' = MLast(IF nonempty THEN "fresh_selected" ELSE "fresh", mystate, 0,
                          MyStateDefault)

\* The viewport lengths a render sets: up to one row more than the longest
\* list, so that half a viewport is 0, 1 or 2 rows.
ScrollViewports == {None} \cup {Some(n) : n \in 0..(MaxLen + 1)}

\* MyState::content_len(n), as a render of the list does.
ScrollContentLen ==
    \E n \in Lengths :
        /\ mystate' = SetContentLen(mystate, n)
        /\ mlast' = MLast("content_len", mystate, 0, MyStateDefault)

\* MyState::viewport_len(n), as a render of the list does.
ScrollViewportLen ==
    \E n \in ScrollViewports :
        /\ mystate' = SetViewportLen(mystate, n)
        /\ mlast' = MLast("viewport_len", mystate, 0, MyStateDefault)

\* MyState::select(idx) with the index of a row of the rendered list, or None.
ScrollSelect ==
    \E idx \in Lengths :
        /\ IsSome(idx) => (IsSome(mystate.content_len) /\ Unwrap(idx) < Unwrap(mystate.content_len))
        /\ mystate' = MyStateSelect(mystate, idx)
        /\ mlast' = MLast("select", mystate, 0, MyStateDefault)

\* MyState::next()
ScrollNext ==
    /\ mystate' = MyStateNext(mystate)
    /\ mlast' = MLast("next", mystate, Streak("next").n, Streak("next").start)

\* MyState::prev()
ScrollPrev ==
    /\ mystate' = MyStatePrev(mystate)
    /\ mlast' = MLast("prev", mystate, Streak("prev").n, Streak("prev").start)

\* MyState::first()
ScrollFirst ==
    /\ mystate' = MyStateFirst(mystate)
    /\ mlast' = MLast("first", mystate, 0, MyStateDefault)

\* MyState::last()
ScrollLast ==
    /\ mystate' = MyStateLast(mystate)
    /\ mlast' = MLast("last", mystate, 0, MyStateDefault)

\* MyState::next_half_viewport()
ScrollNextHalfViewport ==
    /\ mystate' = MyStateNextHalfViewport(mystate)
    /\ mlast' = MLast("next_half_viewport", mystate, 0, MyStateDefault)

\* MyState::prev_half_viewport()
ScrollPrevHalfViewport ==
    /\ mystate' = MyStatePrevHalfViewport(mystate)
    /\ mlast' = MLast("prev_half_viewport", mystate, 0, MyStateDefault)

NextScroll ==
    /\ \/ ScrollFresh
       \/ ScrollContentLen
       \/ ScrollViewportLen
       \/ ScrollSelect
       \/ ScrollNext
       \/ ScrollPrev
       \/ ScrollFirst
       \/ ScrollLast
       \/ ScrollNextHalfViewport
       \/ ScrollPrevHalfViewport
    /\ UNCHANGED <<dirVars, uiVars, qlast, auxVars>>

SpecScroll == InitScroll /\ [][NextScroll]_vars

\* -------------------------------------------------------- MyState: claims
\* C12: in every state the scroll-state operations reach, nothing is selected
\* while the content length is None or 0, and a selected index is below the
\* content length.
C12_SelectionWithinContent ==
    /\ (mystate.content_len = None \/ mystate.content_len = Some(0)) =>
           mystate.sel = None
    /\ (IsSome(mystate.sel) /\ IsSome(mystate.content_len)) =>
           Unwrap(mystate.sel) < Unwrap(mystate.content_len)

\* C15: MyState::next and MyState::prev wrap: on a state with content length
\* N > 0 and a valid index i selected, next at N-1 selects 0 and prev at 0
\* selects N-1, and N calls of next in a row, or N calls of prev in a row,
\* select i again.
C15_WrapRoundTrip ==
    (mlast.op \in {"next", "prev"}
     /\ IsSome(mlast.start.content_len) /\ Unwrap(mlast.start.content_len) > 0
     /\ IsSome(mlast.start.sel)
     /\ Unwrap(mlast.start.sel) < Unwrap(mlast.start.content_len)) =>
        LET n == Unwrap(mlast.start.content_len)
            was == Unwrap(mlast.pre.sel)
        IN /\ mystate.sel = IF mlast.op = "next"
                            THEN Some(IF was = n - 1 THEN 0 ELSE was + 1)
                            ELSE Some(IF was = 0 THEN n - 1 ELSE was - 1)
           /\ mlast.streak = n => mystate.sel = mlast.start.sel

\* C15 witness: three calls of next in a row on three rows, started on the
\* middle row, are back on the middle row.
C15_Witness ==
    /\ mlast.op = "next"
    /\ mlast.streak = 3
    /\ mlast.start.content_len = Some(3)
    /\ mlast.start.sel = Some(1)
    /\ mlast.pre.sel = Some(0)
    /\ mystate.sel = Some(1)

\* C16: next, prev, first, last, next_half_viewport and prev_half_viewport,
\* called on a state with nothing selected whose content length is None or 0,
\* change nothing and leave nothing selected.
C16_EmptyStateOpsAreNoOps ==
    (mlast.op \in {"next", "prev", "first", "last",
                   "next_half_viewport", "prev_half_viewport"}
     /\ (mlast.pre.content_len = None \/ mlast.pre.content_len = Some(0))
     /\ mlast.pre.sel = None) =>
        /\ mystate = mlast.pre
        /\ mystate.sel = None

\* C17: on a state with content length N > 0, viewport length V and index i
\* selected, next_half_viewport selects min(i + V/2, N-1) and
\* prev_half_viewport selects max(i - V/2, 0); a selection stays a selection,
\* and from a valid index the result is within 0..N-1.
C17_HalfViewportClamped ==
    (mlast.op \in {"next_half_viewport", "prev_half_viewport"}
     /\ HasContent(mlast.pre)
     /\ IsSome(mlast.pre.viewport_len)
     /\ IsSome(mlast.pre.sel)) =>
        LET n == Unwrap(mlast.pre.content_len)
            v == Unwrap(mlast.pre.viewport_len)
            i == Unwrap(mlast.pre.sel)
        IN /\ IsSome(mystate.sel)
           /\ mystate.sel = IF mlast.op = "next_half_viewport"
                            THEN Some(Min(i + (v \div 2), n - 1))
                            ELSE Some(Max(i - (v \div 2), 0))
           /\ i < n => Unwrap(mystate.sel) \in 0..(n - 1)

\* C17 witness: next_half_viewport from the middle of three rows with a
\* viewport of four rows is held at the last row.
C17_Witness ==
    /\ mlast.op = "next_half_viewport"
    /\ mlast.pre.content_len = Some(3)
    /\ mlast.pre.viewport_len = Some(4)
    /\ mlast.pre.sel = Some(1)
    /\ mystate.sel = Some(2)

\* --------------------------------------------- queue pane: state machine
\* The snapshots of the player handed to the queue pane from call to call:
\* the queue grows and shrinks between calls.
QueueContexts ==
    { [queue |-> <<>>, state |-> "Stop", songid |-> None],
      [queue |-> <<QSong(1, <<"a">>)>>, state |-> "Play", songid |-> Some(1)],
      [queue |-> <<QSong(1, <<"a">>), QSong(2, <<"q">>), QSong(3, <<"Q", "a">>)>>,
       state |-> "Play", songid |-> Some(3)] }

\* The CommonActions that move the selection of the queue pane.
NavActions ==
    {"Up", "Down", "DownHalf", "UpHalf", "Bottom", "Top", "NextResult", "PreviousResult"}

\* The keys that open, edit and close the filter of the queue pane.
FilterKeys == {"F2", "q", "Backspace", "Enter", "Esc"}

InitQueue ==
    /\ queue_pane = QueuePaneNew
    /\ QueueIdle
    /\ AuxIdle
    /\ UiIdle
    /\ DirIdle
    /\ ScrollIdle

\* QueuePane::before_show(client, context)
QBeforeShow ==
    \E ctx \in QueueContexts :
        /\ queue_pane' = QueueBeforeShow(queue_pane, ctx)
        /\ qlast' = QLast("before_show", ctx, queue_pane, <<>>, 0, NoOut)

\* QueuePane::on_event(event, client, context)
QOnEvent ==
    \E ctx \in QueueContexts, event \in {"Player", "Database"} :
        /\ queue_pane' = QueueOnEvent(queue_pane, event, ctx).qp
        /\ qlast' = QLast(event, ctx, queue_pane, <<>>, 0,
                          [NoOut EXCEPT !.render = QueueOnEvent(queue_pane, event, ctx).render])

\* QueuePane::render(frame, area, context)
QRender ==
    \E ctx \in QueueContexts, height \in Viewports :
        /\ queue_pane' = QueueRender(queue_pane, ctx, height)
        /\ qlast' = QLast("render", ctx, queue_pane, <<>>, 0, NoOut)

\* QueuePane::handle_action for a key bound to a navigation action.
QNavigate ==
    \E ctx \in QueueContexts, action \in NavActions :
        /\ ~queue_pane.filter_input_mode
        /\ \E o \in QueueCommonAction(queue_pane, StopPropagation(KeyEvent("-")),
                                      ctx, action) :
              /\ queue_pane' = o.qp
              /\ qlast' = QLast(action, ctx, queue_pane, o.status, 0, OutOf(o))

\* QueuePane::handle_action for a key bound to MoveUp or MoveDown.
QMove ==
    \E ctx \in QueueContexts, action \in {"MoveUp", "MoveDown"} :
        /\ ~queue_pane.filter_input_mode
        /\ \E o \in QueueCommonAction(queue_pane, StopPropagation(KeyEvent("-")),
                                      ctx, action) :
              /\ queue_pane' = o.qp
              /\ qlast' = QLast(action, ctx, queue_pane, o.status, 0, OutOf(o))

\* QueuePane::handle_action for the keys of the filter.
QFilterKey ==
    \E ctx \in QueueContexts, k \in FilterKeys :
        \E o \in QueueHandleAction(queue_pane, KeyEvent(k), ctx) :
            /\ IsSome(o.qp.filter) => Len(Unwrap(o.qp.filter)) <= MaxStrLen
            /\ queue_pane' = o.qp
            /\ qlast' = QLast("filter_key", ctx, queue_pane, o.status, 0, OutOf(o))

\* QueuePane::handle_mouse_event for the scroll wheel.
QMouseScroll ==
    \E ctx \in QueueContexts, kind \in {"ScrollDown", "ScrollUp"} :
        LET o == QueueHandleMouseScroll(queue_pane, kind)
        IN /\ queue_pane' = o.qp
           /\ qlast' = QLast(kind, ctx, queue_pane, o.status,
                             IF qlast.op = kind THEN Min(qlast.streak + 1, MaxLen + 1)
                             ELSE 1,
                             OutOf(o))

NextQueue ==
    /\ QBeforeShow \/ QOnEvent \/ QRender \/ QNavigate \/ QMove \/ QFilterKey
       \/ QMouseScroll
    /\ UNCHANGED <<dirVars, command, modals, active_tab, pending, ev, scrollVars, auxVars>>

SpecQueue == InitQueue /\ [][NextQueue]_vars

\* ----------------------------------------------------- queue pane: claims
\* C13: whatever the queue does between the calls of before_show, on_event,
\* render and the navigation actions, an index selected in the queue pane is
\* below the length of the queue the last call was given, and nothing is
\* selected when that queue is empty.
C13_QueueSelectionWithinQueue ==
    LET sel == queue_pane.scrolling_state.sel
    IN /\ IsSome(sel) => Unwrap(sel) < Len(qlast.queue)
       /\ qlast.queue = <<>> => sel = None

C19_JumpWithoutResultWarns ==
    (qlast.op \in {"NextResult", "PreviousResult"}
     /\ \/ qlast.pre.filter = None
        \/ /\ IsSome(qlast.pre.scrolling_state.sel)
           /\ Unwrap(qlast.pre.scrolling_state.sel) < Len(qlast.queue)
           /\ \A i \in 1..Len(qlast.queue) :
                 ~SongMatches(qlast.queue[i], Unwrap(qlast.pre.filter))) =>
        /\ queue_pane.scrolling_state.sel = qlast.pre.scrolling_state.sel
        /\ queue_pane.filter = qlast.pre.filter
        /\ \E i \in 1..Len(qlast.status) : qlast.status[i] = "Warn"

\* C23: on a Player event a queue pane that has been shown the queue selects
\* the row of the current song, and it requests a render only when that
\* changed its selection.
C23_PlayerEventRendersOnChange ==
    qlast.op = "Player" =>
        LET hits == {i \in 1..Len(qlast.queue) : Some(qlast.queue[i].id) = qlast.songid}
        IN /\ (hits # {} /\ qlast.pre.scrolling_state.content_len = Some(Len(qlast.queue))) =>
                 /\ IsSome(queue_pane.scrolling_state.sel)
                 /\ Unwrap(queue_pane.scrolling_state.sel) + 1 \in hits
           /\ (qlast.pre.scrolling_state.content_len = Some(Len(qlast.queue))
               /\ IsSome(qlast.pre.scrolling_state.sel)
               /\ queue_pane.scrolling_state.sel = qlast.pre.scrolling_state.sel) =>
                 ~qlast.out.render

\* ------------------------------------------- Ui::on_event: state machine
\* The Ui is handed player events while one tab or another is visible.
InitEvent ==
    /\ DirIdle
    /\ queue_pane = QueuePaneNew
    /\ UiIdle
    /\ ScrollIdle
    /\ QueueIdle
    /\ AuxIdle

\* Ui::on_event(event, context, client)
EventOnEvent ==
    \E event \in UiEvents, ctx \in QueueContexts :
        \E o \in UiOnEventWhole(current_song, queue_pane, event, ctx) :
            /\ current_song' = o.current_song
            /\ queue_pane' = o.qp
            /\ elast' = ELast(event, active_tab, o, queue_pane)
            /\ UNCHANGED active_tab

\* Ui::change_tab(new_tab, client, context): another tab becomes visible.
EventChangeTab ==
    \E new_tab \in TabMap, ctx \in QueueContexts :
        \E o \in ChangeTab(UiOut(command, active_tab, queue_pane), new_tab, ctx) :
            /\ active_tab' = o.active_tab
            /\ queue_pane' = o.qp
            /\ elast' = ELast("none", active_tab,
                              [steps |-> <<>>, res |-> "Ok", render |-> FALSE,
                               status |-> <<>>, failed |-> None], queue_pane)
            /\ UNCHANGED current_song

NextEvent ==
    /\ EventOnEvent \/ EventChangeTab
    /\ UNCHANGED <<dirVars, scrollVars, qlast, command, modals, pending, ev,
                   mouseVars, screenVars, statusVars,
                   cycleVars, transportVars>>

SpecEvent == InitEvent /\ [][NextEvent]_vars

\* ---------------------------------------------------- Ui::on_event: claims
\* C22 as stated: every call of Ui::on_event does the bookkeeping of the
\* router and then hands the event once to every active pane, whichever tab
\* is visible.
C22_EveryActivePaneGetsTheEvent ==
    elast.event # "none" => elast.steps = <<"bookkeeping">> \o ActivePanes

\* C22, amended: the bookkeeping comes first; a call that returns Ok has
\* handed the event once to every active pane in the order of the
\* configuration, whichever tab is visible; a call that returns Err stopped
\* at the bookkeeping or at the first pane that failed.
C22_ActivePanesUntilFailure ==
    elast.event # "none" =>
        LET all == <<"bookkeeping">> \o ActivePanes
        IN /\ elast.steps # <<>> /\ elast.steps[1] = "bookkeeping"
           /\ elast.res = "Ok" => elast.steps = all
           /\ elast.res = "Err" =>
                 \E n \in 1..Len(all) : elast.steps = SubSeq(all, 1, n)

\* C22 witness: a Player event that arrived while the Albums tab was visible
\* reached every pane and moved the selection of the queue pane.
C22_Witness ==
    /\ elast.event = "Player"
    /\ elast.tab = "Albums"
    /\ elast.res = "Ok"
    /\ elast.steps = <<"bookkeeping">> \o ActivePanes
    /\ queue_pane.scrolling_state.sel # elast.pre.scrolling_state.sel
    /\ IsSome(current_song)

\* -------------------------------------------- mouse events: state machine
\* The Ui is rendered, modals are opened and closed, and mouse events arrive.
InitMouse ==
    /\ DirIdle
    /\ queue_pane = QueuePaneNew
    /\ UiIdle
    /\ ScrollIdle
    /\ QueueIdle
    /\ AuxIdle

\* The snapshots of the player handed to the mouse handler: nothing queued
\* and stopped, or three songs and playing.
MouseContexts ==
    { [queue |-> <<>>, state |-> "Stop", songid |-> None],
      [queue |-> <<QSong(1, <<"a">>), QSong(2, <<"q">>), QSong(3, <<"Q", "a">>)>>,
       state |-> "Play", songid |-> Some(3)] }

\* The columns and rows a mouse event may name.
MouseColumns == {1, 3}

MouseRows == 0..4

\* Ui::on_ui_app_event for an event of the host's channel.
MouseAppEvent ==
    \E e \in {[type |-> "Modal", kind |-> "Keybinds"], [type |-> "PopModal", kind |-> "-"]},
       ctx \in MouseContexts :
        /\ e.type = "Modal" => Len(modals) < MaxModals
        /\ \E b \in UiOnEvent(queue_pane, IF e.type = "Modal" THEN "ModalOpened"
                                             ELSE "ModalClosed", ctx) :
              /\ modals' = AfterAppEvent(modals, e)
              /\ queue_pane' = b.qp
              /\ ev' = Ev(e.type, "-",
                          [UiOut(command, active_tab, b.qp) EXCEPT
                              !.res = IF b.res = "Err" THEN "Err" ELSE "None",
                              !.render = b.res = "Ok"])
        /\ mouse' = MLastMouse("none", 0, 0, ctx, queue_pane, table)
        /\ UNCHANGED <<command, active_tab, pending, areas, table>>

\* Ui::render(frame, context): the areas are computed and the pane of the
\* active tab is rendered.
MouseRender ==
    \E ctx \in MouseContexts :
        LET ar == CalcAreas(FrameArea, TabAreaHeight)
            q == QueueRender(queue_pane, ctx, ar["Content"].height)
        IN /\ areas' = ar
           /\ queue_pane' = IF active_tab = "Queue" THEN q ELSE queue_pane
           /\ table' = IF active_tab = "Queue"
                       THEN [area |-> TableArea(ar["Content"]),
                             offset |-> OffsetFor(q.scrolling_state, table.offset)]
                       ELSE table
           /\ ev' = Ev("render", "-", UiOut(command, active_tab, queue_pane'))
           /\ mouse' = MLastMouse("none", 0, 0, ctx, queue_pane, table)
           /\ UNCHANGED <<command, modals, active_tab, pending>>

\* Ui::handle_mouse_event(event, client, context)
MouseEvent ==
    \E kind \in MouseKinds, x \in MouseColumns, y \in MouseRows, ctx \in MouseContexts :
        \E o \in UiHandleMouseEvent(UiOut(command, active_tab, queue_pane), modals,
                                    areas, table, kind, x, y, ctx) :
            /\ active_tab' = o.active_tab
            /\ queue_pane' = o.qp
            /\ table' = [table EXCEPT !.offset = OffsetFor(o.qp.scrolling_state, @)]
            /\ ev' = Ev("mouse", kind, o)
            /\ mouse' = MLastMouse(kind, x, y, ctx, queue_pane, table)
            /\ UNCHANGED <<command, modals, pending, areas>>

\* The keys that switch tabs.
TabKeys == {"Tab", "BackTab", "F8"}

\* Ui::handle_key(key, context, client) for a key that switches tabs.
MouseKey ==
    \E k \in TabKeys, ctx \in MouseContexts :
        \E o \in UiHandleKey(command, modals, active_tab, queue_pane, k, ctx) :
            /\ o.sent = <<>>
            /\ active_tab' = o.active_tab
            /\ queue_pane' = o.qp
            /\ table' = [table EXCEPT !.offset = OffsetFor(o.qp.scrolling_state, @)]
            /\ ev' = Ev("key", k, o)
            /\ mouse' = MLastMouse("none", 0, 0, ctx, queue_pane, table)
            /\ UNCHANGED <<command, modals, pending, areas>>

NextMouse ==
    /\ MouseAppEvent \/ MouseRender \/ MouseEvent \/ MouseKey
    /\ UNCHANGED <<dirVars, scrollVars, qlast, eventVars, screenVars, statusVars,
                   cycleVars, transportVars>>

SpecMouse == InitMouse /\ [][NextMouse]_vars

\* --------------------------------------------------- mouse events: claims
\* C24: with no modal open a mouse event runs the action of at most one
\* region, chosen by kind and position: left click in the header toggles
\* pause; scroll up / down in the header raises / lowers the volume; left
\* click in the status bar seeks while playing or paused; scroll down / up in
\* the tab bar switches to the next / previous tab; left click on a tab other
\* than the active one switches to it; any other event inside the content
\* area goes to the active pane; everything else does nothing.
C24_OneRegionPerMouseEvent ==
    (ev.kind = "mouse" /\ ev.pre.modals = <<>>) =>
        LET in(a) == RectContains(areas[a], mouse.x, mouse.y)
            k == mouse.kind
            ok == ev.res # "Err"
            tab == IF IsSome(GetTabIdxAt(mouse.x))
                   THEN Some(TabNames[Unwrap(GetTabIdxAt(mouse.x)) + 1]) ELSE None
            header == k \in {"LeftClick", "ScrollUp", "ScrollDown"} /\ in("Header")
            bar == k = "LeftClick" /\ in("Bar")
            tabs == k \in {"LeftClick", "ScrollUp", "ScrollDown"} /\ in("Tabs")
            still == active_tab = ev.pre.active_tab /\ ev.trace = <<>>
            pane_untouched == "pane" \notin ev.invoked /\ queue_pane = mouse.qp
        IN /\ Cardinality(ev.layers) <= 1
           /\ header =>
                 /\ ev.layers = {"header"} /\ still /\ pane_untouched
                 /\ ok => /\ ev.render
                          /\ ev.cmds = <<CASE k = "LeftClick" -> "pause_toggle"
                                           [] k = "ScrollUp" -> "volume_up"
                                           [] OTHER -> "volume_down">>
           /\ bar =>
                 /\ ev.layers = {"bar"} /\ still /\ pane_untouched
                 /\ mouse.state \notin {"Play", "Pause"} => (ev.cmds = <<>> /\ ok /\ ~ev.render)
                 /\ (mouse.state \in {"Play", "Pause"} /\ ok) =>
                       (ev.cmds = <<"seek_current">> /\ ev.render)
           /\ tabs =>
                 /\ ev.layers = {"tabs"} /\ "pane" \notin ev.invoked /\ ev.cmds = <<>>
                 /\ (k = "ScrollDown" /\ ok) => active_tab = NextScreen(ev.pre.active_tab)
                 /\ (k = "ScrollUp" /\ ok) => active_tab = PrevScreen(ev.pre.active_tab)
                 /\ k = "LeftClick" =>
                       IF IsSome(tab) /\ Unwrap(tab) # ev.pre.active_tab
                       THEN ok => (active_tab = Unwrap(tab) /\ ev.render)
                       ELSE still /\ ok /\ ~ev.render /\ queue_pane = mouse.qp
           /\ (~header /\ ~bar /\ ~tabs /\ in("Content")) =>
                 /\ ev.layers = {"pane"} /\ ev.invoked = {"pane"} /\ still
           /\ (~header /\ ~bar /\ ~tabs /\ ~in("Content")) =>
                 /\ ev.layers = {} /\ ev.invoked = {} /\ still /\ queue_pane = mouse.qp
                 /\ ev.cmds = <<>> /\ ok /\ ~ev.render

\* C24 witness: with the Queue tab visible and no modal open, a left click
\* in the tab bar on the Directories tab switched to it, and the pane was not
\* handed the click.
C24_Witness ==
    /\ ev.kind = "mouse"
    /\ ev.pre.modals = <<>>
    /\ mouse.kind = "LeftClick"
    /\ RectContains(areas["Tabs"], mouse.x, mouse.y)
    /\ ev.pre.active_tab = "Queue"
    /\ active_tab = "Directories"
    /\ ev.res = "None"
    /\ ev.layers = {"tabs"}
    /\ "pane" \notin ev.invoked

\* C25: while a modal is open every mouse event is handed to the topmost
\* modal only: no player call is made, no tab is switched and the active pane
\* is not handed the event.
C25_MouseGoesToTopModalOnly ==
    (ev.kind = "mouse" /\ ev.pre.modals # <<>>) =>
        /\ ev.recip = Some(ev.pre.modals[Len(ev.pre.modals)])
        /\ ev.invoked = {"modal"}
        /\ ev.cmds = <<>>
        /\ ev.trace = <<>>
        /\ active_tab = ev.pre.active_tab
        /\ queue_pane = mouse.qp
        /\ modals = ev.pre.modals

\* C25 witness: two modals are open and the areas are laid out; a left click
\* in the header went to the second modal and nothing else happened.
C25_Witness ==
    /\ ev.kind = "mouse"
    /\ Len(ev.pre.modals) = 2
    /\ mouse.kind = "LeftClick"
    /\ RectContains(areas["Header"], mouse.x, mouse.y)
    /\ ev.recip = Some(ev.pre.modals[2])
    /\ ev.cmds = <<>>
    /\ ev.res = "None"

C28_UnknownTabIsIgnored ==
    (ev.kind = "key" /\ GlobalOf(ev.key) = "SwitchToTab:Nowhere"
     /\ "global" \in ev.layers) =>
        /\ active_tab = ev.pre.active_tab
        /\ ev.trace = <<>>
        /\ ev.failed = "none"
        /\ ev.status # <<>> /\ ev.status[Len(ev.status)] = "Error"
        /\ ev.res = "None"

\* SwitchToTab with an unknown name was pressed on the second tab.
C28_Witness ==
    /\ ev.kind = "key" /\ GlobalOf(ev.key) = "SwitchToTab:Nowhere"
    /\ "global" \in ev.layers
    /\ ev.pre.active_tab = TabNames[2]
    /\ active_tab = TabNames[2]
    /\ ev.status = <<"Error">>

\* C26: when a player-client call fails while a key is being handled, the
\* operation is aborted and the UI state (active tab, command buffer, modal
\* stack, input mode of the pane) is exactly as it was before the key.
C26_FailedCallLeavesUiUnchanged ==
    (ev.kind = "key" /\ ev.res = "Err") =>
        /\ command = ev.pre.command
        /\ modals = ev.pre.modals
        /\ active_tab = ev.pre.active_tab
        /\ queue_pane.filter_input_mode = ev.pre.filter_input_mode

\* --------------------------------------- directories screen: state machine
\* DirectoriesScreen::default
InitScreen ==
    /\ DirIdle
    /\ queue_pane = QueuePaneNew
    /\ UiIdle
    /\ ScrollIdle
    /\ QueueIdle
    /\ AuxIdle

\* The bounds of the model: the depth of the stack and the typed filter.
ScreenWithinBounds(o) ==
    /\ Len(o.stack.others) <= MaxPath + 1
    /\ Len(o.path) <= MaxPath
    /\ IsSome(o.stack.filter) => Len(Unwrap(o.stack.filter)) <= MaxStrLen

\* The stack, path and input mode a call left behind.
ScreenApply(op, k, o) ==
    /\ ScreenWithinBounds(o)
    /\ stack' = o.stack
    /\ screen' = [path |-> o.path, filter_input_mode |-> o.filter_input_mode]
    /\ slast' = SLast(op, k, o, stack, screen)

\* DirectoriesScreen::before_show(client, app, shared)
ScreenBeforeShow ==
    \E o \in DirectoriesBeforeShow(stack, screen) : ScreenApply("before_show", "-", o)

\* DirectoriesScreen::render: the browser widget records the number of items
\* and the height of the list in the scroll state of the current frame.
ScreenRender ==
    \E v \in Viewports :
        ScreenApply("render", "-",
                    [ScreenOut(OnCurrent(stack,
                                   SetViewportLen(SetContentLen(stack.current.state,
                                                      Some(Len(stack.current.items))),
                                                  Some(v))),
                               screen) EXCEPT !.res = "Ok"])

\* DirectoriesScreen::handle_action(event, client, app, shared)
ScreenHandleAction ==
    \E k \in ScreenKeys :
        \E o \in DirectoriesHandleAction(stack, screen, k) : ScreenApply("handle_action", k, o)

NextDirectories ==
    /\ ScreenBeforeShow \/ ScreenRender \/ ScreenHandleAction
    /\ UNCHANGED <<snap, dlast, jlast, uiVars, scrollVars, qlast, eventVars, mouseVars,
                   statusVars,
                   cycleVars, transportVars>>

SpecScreen == InitScreen /\ [][NextDirectories]_vars

\* C27: an action that needs a selection, invoked when nothing is selected
\* (Right inside an empty listing), is not an error: the handler returns
\* success and changes no state.
C27_NoSelectionIsNotAnError ==
    (slast.op = "handle_action" /\ NavigationOf(slast.key) = "Right"
     /\ ~slast.pre.filter_input_mode
     /\ DirStackGetSelected(slast.pre.stack) = None) =>
        /\ slast.res # "Err"
        /\ stack = slast.pre.stack
        /\ screen.path = slast.pre.path
        /\ screen.filter_input_mode = slast.pre.filter_input_mode

\* ------------------------------------------- status message: state machine
\* Ui::new
InitStatus ==
    /\ DirIdle
    /\ queue_pane = QueuePaneNew
    /\ UiIdle
    /\ ScrollIdle
    /\ QueueIdle
    /\ AuxIdle

\* Ui::display_message(message, level)
StatusDisplayMessage ==
    \E message \in Messages, level \in Levels :
        /\ status_message' = UiDisplayMessage(message, level, now)
        /\ rlast' = RLast("display_message", Some([message |-> message, level |-> level]),
                          status_message)
        /\ UNCHANGED now

\* Ui::render(frame, context), as far as the status message goes.
StatusRender ==
    /\ status_message' = UiRenderStatus(status_message, now)
    /\ rlast' = RLast("render", None, status_message)
    /\ UNCHANGED now

\* A second passes.
StatusTick ==
    /\ now < MaxTime
    /\ now' = now + 1
    /\ rlast' = RLast("tick", None, status_message)
    /\ UNCHANGED status_message

NextStatus ==
    /\ StatusDisplayMessage \/ StatusRender \/ StatusTick
    /\ UNCHANGED <<dirVars, uiVars, scrollVars, qlast, eventVars, mouseVars, screenVars,
                   cycleVars, transportVars>>

SpecStatus == InitStatus /\ [][NextStatus]_vars

\* C29: a render keeps the status message while its age does not exceed the
\* display duration of 5 seconds and clears it once the age exceeds it; the
\* passing of time alone never clears it; display_message replaces whatever
\* message is held, and the age of the new message starts at zero.
C29_MessageHeldForFiveSeconds ==
    /\ (rlast.op = "render" /\ IsSome(rlast.pre)) =>
           IF now - Unwrap(rlast.pre).created > 5
           THEN status_message = None
           ELSE status_message = rlast.pre
    /\ (rlast.op = "render" /\ rlast.pre = None) => status_message = None
    /\ rlast.op = "tick" => status_message = rlast.pre
    /\ rlast.op = "display_message" =>
           /\ IsSome(status_message)
           /\ Unwrap(status_message).message = Unwrap(rlast.arg).message
           /\ Unwrap(status_message).level = Unwrap(rlast.arg).level
           /\ now - Unwrap(status_message).created = 0

\* A render found a message exactly five seconds old and kept it.
C29_Witness ==
    /\ rlast.op = "render"
    /\ IsSome(rlast.pre)
    /\ now - Unwrap(rlast.pre).created = 5
    /\ status_message = rlast.pre

\* C31: in every reachable state of the directories screen, the number of
\* components of the path equals the number of frames pushed above the root
\* (the ancestors without the sentinel).
C31_PathMatchesDepth == Len(screen.path) = Len(stack.others) - 1

\* C32: in every reachable state of the directories screen, filter input
\* mode implies that the filter is Some, so that a typed character is always
\* appended to it.
C32_FilterInputModeHasFilter == screen.filter_input_mode => IsSome(stack.filter)

\* ------------------------------------------------ further claims on the router
\* C33: while the queue pane is in filter input mode, a key other than
\* Confirm or Close is consumed by the pane: no global action runs (no quit,
\* no tab switch, no player command, no command line), no queue or
\* navigation action runs (the pane stays in filter input mode), and only a
\* character or Backspace changes the filter.
C33_FilterInputConsumesKeys ==
    (/\ ev.kind = "key"
     /\ ev.pre.command = None /\ ev.pre.modals = <<>>
     /\ ev.pre.active_tab = "Queue" /\ ev.pre.filter_input_mode
     /\ CommonOf(ev.key) \notin {"Confirm", "Close"}) =>
        /\ ev.invoked = {"pane"}
        /\ "global" \notin ev.layers
        /\ ev.res = "None"
        /\ ev.cmds = <<>>
        /\ ev.trace = <<>>
        /\ command = None
        /\ active_tab = "Queue"
        /\ queue_pane.filter_input_mode
        /\ queue_pane.filter =
              (IF IsSome(CharOf(ev.key)) THEN PushChar(ev.pre.filter, Unwrap(CharOf(ev.key)))
               ELSE IF ev.key = "Backspace" THEN PopChar(ev.pre.filter)
               ELSE ev.pre.filter)

\* In filter input mode the key bound to Quit was typed into the filter.
C33_Witness ==
    /\ ev.kind = "key" /\ GlobalOf(ev.key) = "Quit"
    /\ ev.pre.command = None /\ ev.pre.modals = <<>>
    /\ ev.pre.active_tab = "Queue" /\ ev.pre.filter_input_mode
    /\ ev.pre.filter = Some(<<>>)
    /\ queue_pane.filter = Some(<<ev.key>>)
    /\ ev.res = "None"

\* C34: handle_key returns Quit only when the command line is closed, no
\* modal is open, the active pane did not consume the key and the key is
\* bound to GlobalAction::Quit; in every other case it returns None or an
\* error.
C34_QuitOnlyFromGlobalLayer ==
    ev.kind = "key" =>
        /\ ev.res \in {"None", "Quit", "Err"}
        /\ ev.res = "Quit" =>
              /\ ev.pre.command = None
              /\ ev.pre.modals = <<>>
              /\ "pane" \notin ev.layers
              /\ ~(ev.pre.active_tab = "Queue" /\ ev.pre.filter_input_mode)
              /\ GlobalOf(ev.key) = "Quit"

\* The key bound to Quit was pressed with nothing open.
C34_Witness ==
    /\ ev.kind = "key" /\ ev.res = "Quit"
    /\ ev.invoked = {"pane", "global"}
    /\ ev.layers = {"global"}

\* C35: in every state reached from Ui::new by key and mouse events, the
\* active tab is one of the configured tab names, also after a change_tab
\* that failed.
C35_ActiveTabIsConfigured == \E i \in 1..Len(TabNames) : active_tab = TabNames[i]

\* A change of tab failed in before_show and left the pointer on the new tab.
C35_Witness ==
    /\ ev.failed = "before_show"
    /\ ev.res = "Err"
    /\ active_tab # ev.pre.active_tab
    /\ active_tab = TabNames[Len(TabNames)]

\* ---------------------------------------------- tab cycling: state machine
\* The lists of distinct tab names of a configuration.
NameLists ==
    {<<"Queue">>, <<"Queue", "Albums">>, <<"Albums", "Queue">>,
     <<"Queue", "Directories", "Albums">>, <<"Albums", "Queue", "Directories">>}

\* A configuration, a tab (configured or not) and a screen of a build.
InitCycle ==
    /\ DirIdle
    /\ queue_pane = QueuePaneNew
    /\ UiIdle
    /\ ScrollIdle
    /\ QueueIdle
    /\ EventIdle /\ MouseIdle /\ ScreenIdle /\ StatusIdle /\ TransportIdle
    /\ \E names \in NameLists, debug \in BOOLEAN :
          \E tab \in {names[i] : i \in 1..Len(names)} \cup {"Nowhere"},
             scr \in ScreensOf(debug) :
              /\ cycle = Cycle(names, tab, debug, scr)
              /\ clast = CLast("new", cycle, 0, [tab |-> tab, screen |-> scr])

\* Config::next_screen and Screens::next are applied.
CycleNext ==
    /\ clast.run < MaxRun
    /\ cycle' = [cycle EXCEPT !.tab = NextScreenOf(cycle.names, @),
                              !.screen = ScreensNext(cycle.debug, @)]
    /\ clast' = CLast("next", cycle, clast.run + 1, clast.origin)

\* Config::prev_screen and Screens::prev are applied.
CyclePrev ==
    /\ cycle' = [cycle EXCEPT !.tab = PrevScreenOf(cycle.names, @),
                              !.screen = ScreensPrev(cycle.debug, @)]
    /\ clast' = CLast("prev", cycle, 0, [tab |-> cycle'.tab, screen |-> cycle'.screen])

NextCycle ==
    /\ CycleNext \/ CyclePrev
    /\ UNCHANGED <<dirVars, uiVars, scrollVars, qlast, eventVars, mouseVars, screenVars,
                   statusVars, transportVars>>

SpecCycle == InitCycle /\ [][NextCycle]_vars

\* C36: tab cycling is a cyclic permutation with prev the inverse of next:
\* prev undoes a next and next undoes a prev, as many nexts as there are tabs
\* lead back to the start, next of the last tab is the first and prev of the
\* first is the last (for the names of a configuration and for the enum
\* Screens alike); a tab that is not in the list is mapped to itself.
C36_TabCyclingIsCyclic ==
    LET names == cycle.names
        n == Len(names)
        listed == \E i \in 1..n : names[i] = clast.pre.tab
        count == Cardinality(ScreensOf(cycle.debug))
    IN /\ clast.op = "next" =>
             /\ PrevScreenOf(names, cycle.tab) = clast.pre.tab
             /\ ScreensPrev(cycle.debug, cycle.screen) = clast.pre.screen
             /\ clast.pre.tab = names[n] => cycle.tab = names[1]
             /\ (listed /\ clast.run = n) => cycle.tab = clast.origin.tab
             /\ clast.run = count => cycle.screen = clast.origin.screen
             /\ (clast.run > 0 /\ clast.run < count) => cycle.screen # clast.origin.screen
             /\ (listed /\ clast.run > 0 /\ clast.run < n) => cycle.tab # clast.origin.tab
       /\ clast.op = "prev" =>
             /\ NextScreenOf(names, cycle.tab) = clast.pre.tab
             /\ ScreensNext(cycle.debug, cycle.screen) = clast.pre.screen
             /\ clast.pre.tab = names[1] => cycle.tab = names[n]
       /\ (clast.op \in {"next", "prev"} /\ ~listed) => cycle.tab = clast.pre.tab
       /\ cycle.screen \in ScreensOf(cycle.debug)

\* Three nexts in a list of three tabs led from the last tab back to it.
C36_Witness ==
    /\ clast.op = "next"
    /\ Len(cycle.names) = 3
    /\ clast.run = 3
    /\ clast.origin.tab = cycle.names[3]
    /\ cycle.tab = cycle.names[3]
    /\ clast.pre.tab = cycle.names[2]

\* C37: when the on_event handler of an active pane fails during
\* Ui::on_event, the error is returned to the host, the failing pane is the
\* last one that was handed the event, and the panes after it in the order
\* of the active panes are not handed it.
C37_FailureEndsTheBroadcast ==
    IsSome(elast.failed) =>
        /\ elast.res = "Err"
        /\ elast.steps[Len(elast.steps)] = Unwrap(elast.failed)
        /\ \A i \in 1..Len(ActivePanes) :
              (\E j \in 1..(i - 1) : ActivePanes[j] = Unwrap(elast.failed)) =>
                  \A n \in 1..Len(elast.steps) : elast.steps[n] # ActivePanes[i]

\* The second pane failed on a Player event: the first two panes were handed
\* the event, the third was not.
C37_Witness ==
    /\ elast.event = "Player"
    /\ elast.failed = Some(ActivePanes[2])
    /\ elast.steps = <<"bookkeeping", ActivePanes[1], ActivePanes[2]>>
    /\ elast.res = "Err"

C39_PopOnEmptyStackStillRenders ==
    (ev.kind = "PopModal" /\ ev.pre.modals = <<>>) =>
        /\ modals = <<>>
        /\ ev.res = "None"
        /\ ev.render

\* ------------------------------------------- transport keys: state machine
\* Ui::new with the player stopped.
InitTransport ==
    /\ DirIdle
    /\ queue_pane = QueuePaneNew
    /\ UiIdle
    /\ ScrollIdle
    /\ QueueIdle
    /\ AuxIdle

\* The keys bound to the transport actions, the tab key, the key that opens
\* the command line and the one that closes it.
TransportKeys ==
    {"PageDown", "PageUp", "End", "Insert", "Right", "Left", "Tab", "F4", "Esc"}

\* The snapshot of the player handed to handle_key: two songs queued and
\* the state the player is in.
TransportContext ==
    [queue |-> <<QSong(1, <<"a">>), QSong(2, <<"q">>)>>, state |-> status_state,
     songid |-> IF status_state = "Stop" THEN None ELSE Some(2)]

\* Ui::handle_key(key, context, client) with context.status.state as it is.
TransportKey ==
    \E k \in TransportKeys :
        \E o \in UiHandleKey(command, modals, active_tab, queue_pane, k, TransportContext) :
            /\ WithinBounds(o)
            /\ command' = o.command
            /\ active_tab' = o.active_tab
            /\ queue_pane' = o.qp
            /\ pending' = pending \o o.sent
            /\ ev' = Ev("key", k, o)
            /\ tlast' = TLast("key", k, status_state, command, modals, active_tab,
                              queue_pane)
            /\ UNCHANGED <<modals, status_state>>

\* The host replaces context.status: the player has changed state.
TransportStatus ==
    \E st \in {"Play", "Pause", "Stop"} :
        /\ st # status_state
        /\ status_state' = st
        /\ UNCHANGED <<uiVars, tlast>>

NextTransport ==
    /\ TransportKey \/ TransportStatus
    /\ UNCHANGED <<dirVars, scrollVars, qlast, eventVars, mouseVars, screenVars,
                   statusVars, cycleVars>>

SpecTransport == InitTransport /\ [][NextTransport]_vars

\* C40: a transport action reached in the global layer sends its player
\* command only in the matching player state (NextTrack, PreviousTrack and
\* Stop when playing; TogglePause, SeekForward and SeekBack when playing or
\* paused), and then exactly that command; in any other state the key is
\* consumed: no player command, no error, no render, no status message and
\* the command line, the modals, the active tab and the pane are as before.
C40_TransportOnlyInMatchingState ==
    LET a == GlobalOf(tlast.key)
        matching ==
            \/ a \in {"NextTrack", "PreviousTrack", "Stop"} /\ tlast.state = "Play"
            \/ a \in {"TogglePause", "SeekForward", "SeekBack"}
                  /\ tlast.state \in {"Play", "Pause"}
        call == CASE a = "NextTrack" -> <<"next">>
                  [] a = "PreviousTrack" -> <<"prev">>
                  [] a = "Stop" -> <<"stop">>
                  [] a = "TogglePause" -> <<"pause_toggle">>
                  [] a = "SeekForward" -> <<"seek_current", "+5">>
                  [] a = "SeekBack" -> <<"seek_current", "-5">>
                  [] OTHER -> <<>>
    IN (/\ tlast.op = "key"
        /\ "global" \in ev.layers
        /\ a \in {"NextTrack", "PreviousTrack", "Stop", "TogglePause", "SeekForward",
                  "SeekBack"}) =>
           /\ ev.cmds # <<>> => matching /\ ev.cmds = <<call>>
           /\ matching /\ ev.res # "Err" => ev.cmds = <<call>>
           /\ ~matching =>
                 /\ ev.cmds = <<>>
                 /\ ev.res = "None"
                 /\ ~ev.render
                 /\ ev.status = <<>>
                 /\ command = tlast.pre.command
                 /\ modals = tlast.pre.modals
                 /\ active_tab = tlast.pre.active_tab
                 /\ queue_pane = tlast.pre.queue_pane

\* TogglePause reached the global layer while the player was stopped and
\* nothing was sent.
C40_Witness ==
    /\ tlast.op = "key"
    /\ "global" \in ev.layers
    /\ GlobalOf(tlast.key) = "TogglePause"
    /\ tlast.state = "Stop"
    /\ ev.cmds = <<>>
    /\ ev.res = "None"

====
